---- MODULE Spec2Model ----
(***************************************************************************)
(* Model of the SymTable repository: a symbol table mapping string keys to *)
(* opaque values, in a linked-list backend (symtablelist.c) and a          *)
(* hash-table backend with separate chaining (symtablehash.c, and the copy *)
(* of it that calls SymTable_expand from SymTable_put).                    *)
(*                                                                         *)
(* Memory is a heap of Binding nodes addressed by positive integers; NULL  *)
(* is 0.  A key is the sequence of its character codes (the bytes before   *)
(* the terminating '\0'); a value is an opaque pointer, modelled as a      *)
(* small integer, NULL included.                                           *)
(***************************************************************************)
EXTENDS Integers, Sequences, FiniteSets, TLC

VARIABLES
    impl,        \* which translation unit is linked with the client
    heap,        \* live Binding nodes: address -> struct Binding
    oSymTable,   \* the struct SymTable the client holds
    last,        \* the client's most recent call and what it returned
    applied,     \* the calls of pfApply that call made, in order
    released     \* the calls of free that SymTable_free made, in order

vars == <<impl, heap, oSymTable, last, applied, released>>

NULL == 0

----------------------------------------------------------------------------
(* Bounds of the model.                                                    *)

\* Number of two-letter keys a client has already put when checking starts.
Prefill == 508

\* Values are the pointers 0 (NULL) .. MaxValue.
MaxValue == 1

----------------------------------------------------------------------------
(* Program constants.                                                      *)

auBucketCounts == <<509, 1021, 2039, 4093, 8191, 16381, 32749, 65521>>

BUCKET_COUNTS_LEN == 8

HASH_MULTIPLIER == 65599

\* sizeof(size_t): the accumulator of SymTable_hash wraps at 2^(8*WordBytes).
WordBytes == 8

----------------------------------------------------------------------------
(* The client's keys and values.                                           *)

Values == 0..MaxValue

\* The keys of the client's calls: "a" and "A7", which share bucket 97 of
\* 509 and are in different buckets of 1021.
ProbeKeys == {<<97>>, <<65, 55>>}

\* The i-th of the two-letter keys "aa", "ab", .. put before checking starts,
\* and the value it is bound to.
FillKey(i) == <<97 + ((i - 1) \div 26), 97 + ((i - 1) % 26)>>

FillValue(i) == i % (MaxValue + 1)

\* Every key the client ever passes to the table.
ClientKeys == ProbeKeys \cup {FillKey(i) : i \in 1..Prefill}

----------------------------------------------------------------------------
(* size_t arithmetic.  A size_t is held as WordBytes bytes, least          *)
(* significant first, so that uHash * 65599 + c wraps as in C.             *)

WordZero == [i \in 1..WordBytes |-> 0]

\* A mutant: the accumulator is four bytes wide (an unsigned int).
RECURSIVE WordMulAdd_32(_, _, _)
WordMulAdd_32(w, i, carry) ==
    IF i > WordBytes THEN <<>>
    ELSE IF i > 4 THEN <<0>> \o WordMulAdd_32(w, i + 1, 0)
    ELSE LET t == w[i] * HASH_MULTIPLIER + carry
         IN  <<t % 256>> \o WordMulAdd_32(w, i + 1, t \div 256)

\* w * HASH_MULTIPLIER + carry, from byte i upwards, truncated to the word.
RECURSIVE WordMulAdd(_, _, _)
WordMulAdd(w, i, carry) ==
    IF i > WordBytes THEN <<>>
    ELSE LET t == w[i] * HASH_MULTIPLIER + carry
         IN  <<t % 256>> \o WordMulAdd(w, i + 1, t \div 256)

\* w % m, reading bytes i, i-1, .., 1 after a running remainder r.
RECURSIVE WordMod(_, _, _, _)
WordMod(w, i, r, m) ==
    IF i = 0 THEN r
    ELSE WordMod(w, i - 1, (r * 256 + w[i]) % m, m)

----------------------------------------------------------------------------
(* SymTable_hash                                                           *)

\* The for loop of SymTable_hash from position u with accumulator uHash.
RECURSIVE HashLoop(_, _, _)
HashLoop(pcKey, u, uHash) ==
    IF u > Len(pcKey) THEN uHash
    ELSE HashLoop(pcKey, u + 1, WordMulAdd(uHash, 1, pcKey[u]))

\* SymTable_hash as the code computes it: the loop, then the remainder.
HashCode(pcKey, uBucketCount) ==
    WordMod(HashLoop(pcKey, 1, WordZero), WordBytes, 0, uBucketCount)

\* The hash codes of the client's keys for the two smallest bucket counts,
\* computed once.
HashCodes ==
    [pcKey \in ClientKeys |->
        [i \in {1, 2} |-> HashCode(pcKey, auBucketCounts[i])]]

\* SymTable_hash: HashCode, read from HashCodes where it is tabulated.
SymTable_hash(pcKey, uBucketCount) ==
    IF pcKey \in ClientKeys /\ uBucketCount = auBucketCounts[1]
    THEN HashCodes[pcKey][1]
    ELSE IF pcKey \in ClientKeys /\ uBucketCount = auBucketCounts[2]
    THEN HashCodes[pcKey][2]
    ELSE HashCode(pcKey, uBucketCount)

----------------------------------------------------------------------------
(* The heap.                                                               *)

\* What an operation hands back: the heap and table after it, its return
\* value, and which of its mallocs failed ("none" when every malloc it made
\* succeeded).
Outcome(h, t, r, failed) == [heap |-> h, tab |-> t, ret |-> r, failed |-> failed]

Result(h, t, r) == Outcome(h, t, r, "none")

\* malloc(sizeof(struct Binding)): an address that is not live.  Addresses
\* are never compared or printed by the program, so the least one stands
\* for all of them.
NewAddr(h) == CHOOSE p \in 1..(Cardinality(DOMAIN h) + 1) : p \notin DOMAIN h

\* free(ps), after free(ps->pcKey): the node is no longer live.
Free(h, ps) == [q \in DOMAIN h \ {ps} |-> h[q]]

\* A node just filled in by SymTable_put.  Its pcKey points to the block
\* put allocated and copied the key into (pcKeyCopy); the field pcKey of
\* the model holds the string that block holds, and pcKeyIs tells which
\* block the pointer is to.
Binding(pcKey, pvValue, psNextBinding) ==
    [pcKey |-> pcKey, pcKeyIs |-> "pcKeyCopy", pvValue |-> pvValue,
     psNextBinding |-> psNextBinding]

\* The heap once malloc has returned ps for a node: the node is live, its
\* fields not yet assigned (no operation reads them before assigning them).
Malloc(h, ps) == (ps :> Binding(<<>>, NULL, NULL)) @@ h

\* The chain walk shared by put, replace, contains and get: the first node
\* from psCurrent on whose key equals pcKey (strcmp == 0), or NULL.
RECURSIVE FindInChain(_, _, _)
FindInChain(h, psCurrent, pcKey) ==
    IF psCurrent = NULL THEN NULL
    ELSE IF h[psCurrent].pcKey = pcKey THEN psCurrent
    ELSE FindInChain(h, h[psCurrent].psNextBinding, pcKey)

----------------------------------------------------------------------------
(* Hash backend: symtablehash.c                                            *)

\* The array pointer malloc returns on failure.
NoArray == <<>>

SymTable_allocateBuckets(uBucketCount, ok) ==
    IF ~ok THEN NoArray
    ELSE [u \in 0..(uBucketCount - 1) |-> NULL]

\* A mutant: the table starts at the second size of the sequence.
SymTable_new_secondSize ==
    [ppsBuckets   |-> SymTable_allocateBuckets(auBucketCounts[1 + 1], TRUE),
     uBucketCount |-> auBucketCounts[1 + 1],
     uLength      |-> 0,
     uBucketIndex |-> 1]

\* The table SymTable_new returns when its allocations succeed.
SymTable_new ==
    [ppsBuckets   |-> SymTable_allocateBuckets(auBucketCounts[0 + 1], TRUE),
     uBucketCount |-> auBucketCounts[0 + 1],
     uLength      |-> 0,
     uBucketIndex |-> 0]

\* One call of free made by SymTable_free: what is released, and for a
\* key copy or a node, of which binding.
free(what, ps) == [what |-> what, ps |-> ps]

\* A mutant: the nodes of a chain are released, their key copies are not.
RECURSIVE FreeChain_noKey(_, _)
FreeChain_noKey(h, psCurrent) ==
    IF psCurrent = NULL THEN <<>>
    ELSE <<free("psCurrent", psCurrent)>>
             \o FreeChain_noKey(h, h[psCurrent].psNextBinding)

\* The inner loop of SymTable_free: for each binding from psCurrent on,
\* its successor is read, then its key copy and the node are released.
RECURSIVE FreeChain(_, _)
FreeChain(h, psCurrent) ==
    IF psCurrent = NULL THEN <<>>
    ELSE LET psNext == h[psCurrent].psNextBinding
         IN  <<free("pcKey", psCurrent), free("psCurrent", psCurrent)>>
                 \o FreeChain(h, psNext)

\* The outer loop of SymTable_free over buckets lo..hi, in increasing
\* order.
RECURSIVE FreeBuckets(_, _, _, _)
FreeBuckets(h, ppsBuckets, lo, hi) ==
    IF lo > hi THEN <<>>
    ELSE IF lo = hi THEN FreeChain(h, ppsBuckets[lo])
    ELSE LET mid == (lo + hi) \div 2
         IN  FreeBuckets(h, ppsBuckets, lo, mid)
                 \o FreeBuckets(h, ppsBuckets, mid + 1, hi)

\* The heap once the nodes named in the calls of free are released.
Released(h, calls) ==
    LET gone == {calls[i].ps : i \in {j \in 1..Len(calls) :
                                         calls[j].what = "psCurrent"}}
    IN  [q \in DOMAIN h \ gone |-> h[q]]

\* SymTable_free: the calls of free it makes and the heap they leave.
SymTable_free(h, t) ==
    LET calls == FreeBuckets(h, t.ppsBuckets, 0, t.uBucketCount - 1)
                     \o <<free("ppsBuckets", NULL), free("oSymTable", NULL)>>
    IN  [heap |-> Released(h, calls), calls |-> calls]

\* What the client holds in place of a table when SymTable_new has returned
\* NULL or the table has been handed to SymTable_free.
NoTable == [null |-> TRUE]

\* A mutant: when the bucket array cannot be allocated NULL is returned
\* and the table object is not released.
SymTable_new_malloc_leak(m) ==
    IF m = "table" THEN [tab |-> NoTable, calls |-> <<>>]
    ELSE LET ppsBuckets == SymTable_allocateBuckets(auBucketCounts[0 + 1],
                                                    m # "buckets")
         IN  IF ppsBuckets = NoArray
             THEN [tab |-> NoTable, calls |-> <<>>]
             ELSE [tab |-> SymTable_new, calls |-> <<>>]

\* SymTable_new with the outcome m of its mallocs: what it returns and the
\* calls of free it makes.
SymTable_new_malloc(m) ==
    IF m = "table" THEN [tab |-> NoTable, calls |-> <<>>]
    ELSE LET ppsBuckets == SymTable_allocateBuckets(auBucketCounts[0 + 1],
                                                    m # "buckets")
         IN  IF ppsBuckets = NoArray
             THEN [tab |-> NoTable, calls |-> <<free("oSymTable", NULL)>>]
             ELSE [tab |-> SymTable_new, calls |-> <<>>]

SymTable_getLength(h, t) == Result(h, t, t.uLength)

\* A mutant: only the first node of the old chain is relinked; the nodes
\* after it are left out of the new array.
RehashChain_firstOnly(s, psCurrent, uNewBucketCount) ==
    IF psCurrent = NULL THEN s
    ELSE LET uIndex == SymTable_hash(s.heap[psCurrent].pcKey, uNewBucketCount)
         IN  [heap    |-> [s.heap EXCEPT ![psCurrent].psNextBinding =
                                             s.buckets[uIndex]],
              buckets |-> [s.buckets EXCEPT ![uIndex] = psCurrent]]

\* A mutant: each binding is recreated in the new array (a new node with the
\* same key and value) and its old node released, instead of relinked.
RECURSIVE RehashChain_copy(_, _, _)
RehashChain_copy(s, psCurrent, uNewBucketCount) ==
    IF psCurrent = NULL THEN s
    ELSE LET psNext == s.heap[psCurrent].psNextBinding
             uIndex == SymTable_hash(s.heap[psCurrent].pcKey, uNewBucketCount)
             psCopy == NewAddr(s.heap)
             copied == [Malloc(s.heap, psCopy) EXCEPT ![psCopy] =
                            Binding(s.heap[psCurrent].pcKey,
                                    s.heap[psCurrent].pvValue,
                                    s.buckets[uIndex])]
         IN  RehashChain_copy(
                 [heap    |-> Free(copied, psCurrent),
                  buckets |-> [s.buckets EXCEPT ![uIndex] = psCopy]],
                 psNext, uNewBucketCount)

\* The inner loop of SymTable_expand: relink the chain from psCurrent into
\* ppsNewBuckets.  s is [heap, buckets].
RECURSIVE RehashChain(_, _, _)
RehashChain(s, psCurrent, uNewBucketCount) ==
    IF psCurrent = NULL THEN s
    ELSE LET psNext == s.heap[psCurrent].psNextBinding
             uIndex == SymTable_hash(s.heap[psCurrent].pcKey, uNewBucketCount)
         IN  RehashChain(
                 [heap    |-> [s.heap EXCEPT ![psCurrent].psNextBinding =
                                                  s.buckets[uIndex]],
                  buckets |-> [s.buckets EXCEPT ![uIndex] = psCurrent]],
                 psNext, uNewBucketCount)

\* The outer loop of SymTable_expand over the old buckets lo..hi, in
\* increasing order.  The range is halved to keep the evaluation shallow;
\* the test on the array's bounds makes the first half be evaluated before
\* the second starts.
RECURSIVE RehashBuckets(_, _, _, _, _)
RehashBuckets(s, ppsOld, lo, hi, uNewBucketCount) ==
    IF lo > hi THEN s
    ELSE IF lo = hi THEN RehashChain(s, ppsOld[lo], uNewBucketCount)
    ELSE LET mid  == (lo + hi) \div 2
             done == RehashBuckets(s, ppsOld, lo, mid, uNewBucketCount)
         IN  IF DOMAIN done.buckets = DOMAIN s.buckets
             THEN RehashBuckets(done, ppsOld, mid + 1, hi, uNewBucketCount)
             ELSE done

\* A mutant: the re-check of the trigger at entry is left out.
SymTable_expand_noRecheck(h, t, ok) ==
    IF t.uBucketIndex + 1 >= BUCKET_COUNTS_LEN
    THEN [heap |-> h, tab |-> t, failed |-> "none"]
    ELSE LET uNewBucketIndex == t.uBucketIndex + 1
             uNewBucketCount == auBucketCounts[uNewBucketIndex + 1]
             ppsNewBuckets   == SymTable_allocateBuckets(uNewBucketCount, ok)
         IN  IF ppsNewBuckets = NoArray
             THEN [heap |-> h, tab |-> t, failed |-> "buckets"]
             ELSE LET s == RehashBuckets(
                               [heap |-> h, buckets |-> ppsNewBuckets],
                               t.ppsBuckets, 0, t.uBucketCount - 1,
                               uNewBucketCount)
                  IN  [heap   |-> s.heap,
                       tab    |-> [t EXCEPT !.ppsBuckets   = s.buckets,
                                            !.uBucketCount = uNewBucketCount,
                                            !.uBucketIndex = uNewBucketIndex],
                       failed |-> "none"]

\* A mutant: the bindings are rehashed modulo the old bucket count.
SymTable_expand_oldCount(h, t, ok) ==
    IF t.uBucketIndex + 1 >= BUCKET_COUNTS_LEN
    THEN [heap |-> h, tab |-> t, failed |-> "none"]
    ELSE IF t.uLength <= t.uBucketCount
    THEN [heap |-> h, tab |-> t, failed |-> "none"]
    ELSE LET uNewBucketIndex == t.uBucketIndex + 1
             uNewBucketCount == auBucketCounts[uNewBucketIndex + 1]
             ppsNewBuckets   == SymTable_allocateBuckets(uNewBucketCount, ok)
         IN  IF ppsNewBuckets = NoArray
             THEN [heap |-> h, tab |-> t, failed |-> "buckets"]
             ELSE LET s == RehashBuckets(
                               [heap |-> h, buckets |-> ppsNewBuckets],
                               t.ppsBuckets, 0, t.uBucketCount - 1,
                               t.uBucketCount)
                  IN  [heap   |-> s.heap,
                       tab    |-> [t EXCEPT !.ppsBuckets   = s.buckets,
                                            !.uBucketCount = uNewBucketCount,
                                            !.uBucketIndex = uNewBucketIndex],
                       failed |-> "none"]

\* A mutant: the new size index is installed before the array is allocated,
\* and stays when the allocation fails.
SymTable_expand_indexOnFail(h, t, ok) ==
    IF t.uBucketIndex + 1 >= BUCKET_COUNTS_LEN
    THEN [heap |-> h, tab |-> t, failed |-> "none"]
    ELSE IF t.uLength <= t.uBucketCount
    THEN [heap |-> h, tab |-> t, failed |-> "none"]
    ELSE LET uNewBucketIndex == t.uBucketIndex + 1
             uNewBucketCount == auBucketCounts[uNewBucketIndex + 1]
             ppsNewBuckets   == SymTable_allocateBuckets(uNewBucketCount, ok)
         IN  IF ppsNewBuckets = NoArray
             THEN [heap   |-> h,
                   tab    |-> [t EXCEPT !.uBucketIndex = uNewBucketIndex],
                   failed |-> "buckets"]
             ELSE LET s == RehashBuckets(
                               [heap |-> h, buckets |-> ppsNewBuckets],
                               t.ppsBuckets, 0, t.uBucketCount - 1,
                               uNewBucketCount)
                  IN  [heap   |-> s.heap,
                       tab    |-> [t EXCEPT !.ppsBuckets   = s.buckets,
                                            !.uBucketCount = uNewBucketCount,
                                            !.uBucketIndex = uNewBucketIndex],
                       failed |-> "none"]

\* A mutant: the new array and count are installed, the size index is not.
SymTable_expand_staleIndex(h, t, ok) ==
    IF t.uBucketIndex + 1 >= BUCKET_COUNTS_LEN
    THEN [heap |-> h, tab |-> t, failed |-> "none"]
    ELSE IF t.uLength <= t.uBucketCount
    THEN [heap |-> h, tab |-> t, failed |-> "none"]
    ELSE LET uNewBucketIndex == t.uBucketIndex + 1
             uNewBucketCount == auBucketCounts[uNewBucketIndex + 1]
             ppsNewBuckets   == SymTable_allocateBuckets(uNewBucketCount, ok)
         IN  IF ppsNewBuckets = NoArray
             THEN [heap |-> h, tab |-> t, failed |-> "buckets"]
             ELSE LET s == RehashBuckets(
                               [heap |-> h, buckets |-> ppsNewBuckets],
                               t.ppsBuckets, 0, t.uBucketCount - 1,
                               uNewBucketCount)
                  IN  [heap   |-> s.heap,
                       tab    |-> [t EXCEPT !.ppsBuckets   = s.buckets,
                                            !.uBucketCount = uNewBucketCount],
                       failed |-> "none"]

\* SymTable_expand that moves to the smallest size holding uLength bindings
\* instead of to the next size.
SymTable_expand_toFit(h, t, ok) ==
    IF t.uBucketIndex + 1 >= BUCKET_COUNTS_LEN
    THEN [heap |-> h, tab |-> t, failed |-> "none"]
    ELSE IF t.uLength <= t.uBucketCount
    THEN [heap |-> h, tab |-> t, failed |-> "none"]
    ELSE LET fits == {i \in (t.uBucketIndex + 1)..(BUCKET_COUNTS_LEN - 1) :
                          \/ auBucketCounts[i + 1] >= t.uLength
                          \/ i = BUCKET_COUNTS_LEN - 1}
             uNewBucketIndex == CHOOSE i \in fits : \A j \in fits : i <= j
             uNewBucketCount == auBucketCounts[uNewBucketIndex + 1]
             ppsNewBuckets   == SymTable_allocateBuckets(uNewBucketCount, ok)
         IN  IF ppsNewBuckets = NoArray
             THEN [heap |-> h, tab |-> t, failed |-> "buckets"]
             ELSE LET s == RehashBuckets(
                               [heap |-> h, buckets |-> ppsNewBuckets],
                               t.ppsBuckets, 0, t.uBucketCount - 1,
                               uNewBucketCount)
                  IN  [heap   |-> s.heap,
                       tab    |-> [t EXCEPT !.ppsBuckets   = s.buckets,
                                            !.uBucketCount = uNewBucketCount,
                                            !.uBucketIndex = uNewBucketIndex],
                       failed |-> "none"]

\* SymTable_expand; ok says whether the bucket-array malloc succeeds.
SymTable_expand(h, t, ok) ==
    IF t.uBucketIndex + 1 >= BUCKET_COUNTS_LEN
    THEN [heap |-> h, tab |-> t, failed |-> "none"]
    ELSE IF t.uLength <= t.uBucketCount
    THEN [heap |-> h, tab |-> t, failed |-> "none"]
    ELSE LET uNewBucketIndex == t.uBucketIndex + 1
             uNewBucketCount == auBucketCounts[uNewBucketIndex + 1]
             ppsNewBuckets   == SymTable_allocateBuckets(uNewBucketCount, ok)
         IN  IF ppsNewBuckets = NoArray
             THEN [heap |-> h, tab |-> t, failed |-> "buckets"]
             ELSE LET s == RehashBuckets(
                               [heap |-> h, buckets |-> ppsNewBuckets],
                               t.ppsBuckets, 0, t.uBucketCount - 1,
                               uNewBucketCount)
                  IN  [heap   |-> s.heap,
                       tab    |-> [t EXCEPT !.ppsBuckets   = s.buckets,
                                            !.uBucketCount = uNewBucketCount,
                                            !.uBucketIndex = uNewBucketIndex],
                       failed |-> "none"]

\* The outcomes of the mallocs of one SymTable_put: all succeed, or the
\* named one fails (the node, the key copy, the new bucket array).
Mallocs == {"ok", "node", "key", "buckets"}

\* A mutant: the existence check is left out.
SymTable_put_noCheck(h, t, pcKey, pvValue, m) ==
    LET uIndex == SymTable_hash(pcKey, t.uBucketCount)
    IN  IF m = "node" THEN Outcome(h, t, 0, "node")
        ELSE IF m = "key" THEN Outcome(h, t, 0, "key")
        ELSE LET psNewBinding == NewAddr(h)
             IN  Result(
                   (psNewBinding :> Binding(pcKey, pvValue,
                                            t.ppsBuckets[uIndex])) @@ h,
                   [t EXCEPT !.ppsBuckets[uIndex] = psNewBinding,
                             !.uLength = @ + 1],
                   1)

\* A mutant: the new node is not made the head of its chain.
SymTable_put_noLink(h, t, pcKey, pvValue, m) ==
    LET uIndex == SymTable_hash(pcKey, t.uBucketCount)
    IN  IF FindInChain(h, t.ppsBuckets[uIndex], pcKey) # NULL
        THEN Result(h, t, 0)
        ELSE IF m = "node" THEN Outcome(h, t, 0, "node")
        ELSE IF m = "key" THEN Outcome(h, t, 0, "key")
        ELSE LET psNewBinding == NewAddr(h)
             IN  Result(
                   (psNewBinding :> Binding(pcKey, pvValue,
                                            t.ppsBuckets[uIndex])) @@ h,
                   [t EXCEPT !.uLength = @ + 1],
                   1)

\* A mutant: a key that is bound is given the offered value, as replace
\* would, before 0 is returned.
SymTable_put_overwrite(h, t, pcKey, pvValue, m) ==
    LET uIndex    == SymTable_hash(pcKey, t.uBucketCount)
        psCurrent == FindInChain(h, t.ppsBuckets[uIndex], pcKey)
    IN  IF psCurrent # NULL
        THEN Result([h EXCEPT ![psCurrent].pvValue = pvValue], t, 0)
        ELSE IF m = "node" THEN Outcome(h, t, 0, "node")
        ELSE IF m = "key" THEN Outcome(h, t, 0, "key")
        ELSE LET psNewBinding == NewAddr(h)
             IN  Result(
                   (psNewBinding :> Binding(pcKey, pvValue,
                                            t.ppsBuckets[uIndex])) @@ h,
                   [t EXCEPT !.ppsBuckets[uIndex] = psNewBinding,
                             !.uLength = @ + 1],
                   1)

\* A mutant: when the key copy cannot be allocated, the node allocated for
\* the binding is not released.
SymTable_put_leakNode(h, t, pcKey, pvValue, m) ==
    LET uIndex == SymTable_hash(pcKey, t.uBucketCount)
    IN  IF FindInChain(h, t.ppsBuckets[uIndex], pcKey) # NULL
        THEN Result(h, t, 0)
        ELSE IF m = "node" THEN Outcome(h, t, 0, "node")
        ELSE IF m = "key" THEN Outcome(Malloc(h, NewAddr(h)), t, 0, "key")
        ELSE LET psNewBinding == NewAddr(h)
             IN  Result(
                   (psNewBinding :> Binding(pcKey, pvValue,
                                            t.ppsBuckets[uIndex])) @@ h,
                   [t EXCEPT !.ppsBuckets[uIndex] = psNewBinding,
                             !.uLength = @ + 1],
                   1)

\* A mutant: a failed malloc is reported with the result of an insertion.
SymTable_put_failReturnsOne(h, t, pcKey, pvValue, m) ==
    LET uIndex == SymTable_hash(pcKey, t.uBucketCount)
    IN  IF FindInChain(h, t.ppsBuckets[uIndex], pcKey) # NULL
        THEN Result(h, t, 0)
        ELSE IF m = "node" THEN Outcome(h, t, 1, "node")
        ELSE IF m = "key" THEN Outcome(h, t, 1, "key")
        ELSE LET psNewBinding == NewAddr(h)
             IN  Result(
                   (psNewBinding :> Binding(pcKey, pvValue,
                                            t.ppsBuckets[uIndex])) @@ h,
                   [t EXCEPT !.ppsBuckets[uIndex] = psNewBinding,
                             !.uLength = @ + 1],
                   1)

\* A mutant: the binding count is not updated.
SymTable_put_noCount(h, t, pcKey, pvValue, m) ==
    LET uIndex == SymTable_hash(pcKey, t.uBucketCount)
    IN  IF FindInChain(h, t.ppsBuckets[uIndex], pcKey) # NULL
        THEN Result(h, t, 0)
        ELSE IF m = "node" THEN Outcome(h, t, 0, "node")
        ELSE IF m = "key" THEN Outcome(h, t, 0, "key")
        ELSE LET psNewBinding == NewAddr(h)
             IN  Result(
                   (psNewBinding :> Binding(pcKey, pvValue,
                                            t.ppsBuckets[uIndex])) @@ h,
                   [t EXCEPT !.ppsBuckets[uIndex] = psNewBinding],
                   1)

\* SymTable_put of symtablehash.c: the insertion is not followed by a call
\* of SymTable_expand.
\* A mutant: the binding keeps the caller's pointer pcKey instead of the
\* copy.
SymTable_put_alias(h, t, pcKey, pvValue, m) ==
    LET uIndex == SymTable_hash(pcKey, t.uBucketCount)
    IN  IF FindInChain(h, t.ppsBuckets[uIndex], pcKey) # NULL
        THEN Result(h, t, 0)
        ELSE IF m = "node" THEN Outcome(h, t, 0, "node")
        ELSE IF m = "key"
        THEN Outcome(Free(Malloc(h, NewAddr(h)), NewAddr(h)), t, 0, "key")
        ELSE LET psNewBinding == NewAddr(h)
             IN  Result(
                   (psNewBinding :>
                        [Binding(pcKey, pvValue, t.ppsBuckets[uIndex])
                             EXCEPT !.pcKeyIs = "pcKey"]) @@ h,
                   [t EXCEPT !.ppsBuckets[uIndex] = psNewBinding,
                             !.uLength = @ + 1],
                   1)

\* A mutant: in a chain that is not empty the new binding is linked in
\* behind the first node instead of before it.
SymTable_put_second(h, t, pcKey, pvValue, m) ==
    LET uIndex == SymTable_hash(pcKey, t.uBucketCount)
        psHead == t.ppsBuckets[uIndex]
    IN  IF FindInChain(h, psHead, pcKey) # NULL
        THEN Result(h, t, 0)
        ELSE IF m = "node" THEN Outcome(h, t, 0, "node")
        ELSE IF m = "key"
        THEN Outcome(Free(Malloc(h, NewAddr(h)), NewAddr(h)), t, 0, "key")
        ELSE LET psNewBinding == NewAddr(h)
             IN  IF psHead = NULL
                 THEN Result(
                        (psNewBinding :> Binding(pcKey, pvValue, NULL)) @@ h,
                        [t EXCEPT !.ppsBuckets[uIndex] = psNewBinding,
                                  !.uLength = @ + 1],
                        1)
                 ELSE Result(
                        (psNewBinding :> Binding(pcKey, pvValue,
                                                 h[psHead].psNextBinding))
                            @@ [h EXCEPT ![psHead].psNextBinding =
                                             psNewBinding],
                        [t EXCEPT !.uLength = @ + 1],
                        1)

SymTable_put(h, t, pcKey, pvValue, m) ==
    LET uIndex == SymTable_hash(pcKey, t.uBucketCount)
    IN  IF FindInChain(h, t.ppsBuckets[uIndex], pcKey) # NULL
        THEN Result(h, t, 0)
        ELSE IF m = "node" THEN Outcome(h, t, 0, "node")
        ELSE IF m = "key"
        THEN Outcome(Free(Malloc(h, NewAddr(h)), NewAddr(h)), t, 0, "key")
        ELSE LET psNewBinding == NewAddr(h)
             IN  Result(
                   (psNewBinding :> Binding(pcKey, pvValue,
                                            t.ppsBuckets[uIndex])) @@ h,
                   [t EXCEPT !.ppsBuckets[uIndex] = psNewBinding,
                             !.uLength = @ + 1],
                   1)

\* SymTable_put that calls SymTable_expand only in the put that first takes
\* uLength past uBucketCount.
SymTable_put_expanding_once(h, t, pcKey, pvValue, m) ==
    LET uIndex == SymTable_hash(pcKey, t.uBucketCount)
    IN  IF FindInChain(h, t.ppsBuckets[uIndex], pcKey) # NULL
        THEN Result(h, t, 0)
        ELSE IF m = "node" THEN Outcome(h, t, 0, "node")
        ELSE IF m = "key"
        THEN Outcome(Free(Malloc(h, NewAddr(h)), NewAddr(h)), t, 0, "key")
        ELSE LET psNewBinding == NewAddr(h)
                 h1 == (psNewBinding :> Binding(pcKey, pvValue,
                                                t.ppsBuckets[uIndex])) @@ h
                 t1 == [t EXCEPT !.ppsBuckets[uIndex] = psNewBinding,
                                 !.uLength = @ + 1]
             IN  IF t1.uLength = t1.uBucketCount + 1
                 THEN LET e == SymTable_expand(h1, t1, m # "buckets")
                      IN  Outcome(e.heap, e.tab, 1, e.failed)
                 ELSE Result(h1, t1, 1)

\* SymTable_put of the copy of symtablehash.c that grows the table: the
\* same insertion, then SymTable_expand when uLength > uBucketCount.
SymTable_put_expanding(h, t, pcKey, pvValue, m) ==
    LET uIndex == SymTable_hash(pcKey, t.uBucketCount)
    IN  IF FindInChain(h, t.ppsBuckets[uIndex], pcKey) # NULL
        THEN Result(h, t, 0)
        ELSE IF m = "node" THEN Outcome(h, t, 0, "node")
        ELSE IF m = "key"
        THEN Outcome(Free(Malloc(h, NewAddr(h)), NewAddr(h)), t, 0, "key")
        ELSE LET psNewBinding == NewAddr(h)
                 h1 == (psNewBinding :> Binding(pcKey, pvValue,
                                                t.ppsBuckets[uIndex])) @@ h
                 t1 == [t EXCEPT !.ppsBuckets[uIndex] = psNewBinding,
                                 !.uLength = @ + 1]
             IN  IF t1.uLength > t1.uBucketCount
                 THEN LET e == SymTable_expand(h1, t1, m # "buckets")
                      IN  Outcome(e.heap, e.tab, 1, e.failed)
                 ELSE Result(h1, t1, 1)

\* A mutant: the old value is returned but the new one is not stored.
SymTable_replace_noStore(h, t, pcKey, pvValue) ==
    LET uIndex    == SymTable_hash(pcKey, t.uBucketCount)
        psCurrent == FindInChain(h, t.ppsBuckets[uIndex], pcKey)
    IN  IF psCurrent # NULL
        THEN Result(h, t, h[psCurrent].pvValue)
        ELSE Result(h, t, NULL)

\* A mutant: a key that is not bound is bound to the value, as put would.
SymTable_replace_insert(h, t, pcKey, pvValue) ==
    LET uIndex    == SymTable_hash(pcKey, t.uBucketCount)
        psCurrent == FindInChain(h, t.ppsBuckets[uIndex], pcKey)
    IN  IF psCurrent # NULL
        THEN Result([h EXCEPT ![psCurrent].pvValue = pvValue], t,
                    h[psCurrent].pvValue)
        ELSE LET psNewBinding == NewAddr(h)
             IN  Result(
                   (psNewBinding :> Binding(pcKey, pvValue,
                                            t.ppsBuckets[uIndex])) @@ h,
                   [t EXCEPT !.ppsBuckets[uIndex] = psNewBinding,
                             !.uLength = @ + 1],
                   NULL)

\* A mutant: replace ends, as put does, with a call of SymTable_expand.
SymTable_replace_expanding(h, t, pcKey, pvValue) ==
    LET uIndex    == SymTable_hash(pcKey, t.uBucketCount)
        psCurrent == FindInChain(h, t.ppsBuckets[uIndex], pcKey)
    IN  IF psCurrent # NULL
        THEN LET e == SymTable_expand(
                          [h EXCEPT ![psCurrent].pvValue = pvValue], t, TRUE)
             IN  Result(e.heap, e.tab, h[psCurrent].pvValue)
        ELSE Result(h, t, NULL)

\* SymTable_replace that, having found the key, stores the value in the
\* first binding of the bucket.
SymTable_replace_head(h, t, pcKey, pvValue) ==
    LET uIndex    == SymTable_hash(pcKey, t.uBucketCount)
        psCurrent == FindInChain(h, t.ppsBuckets[uIndex], pcKey)
    IN  IF psCurrent # NULL
        THEN Result([h EXCEPT ![t.ppsBuckets[uIndex]].pvValue = pvValue], t,
                    h[psCurrent].pvValue)
        ELSE Result(h, t, NULL)

SymTable_replace(h, t, pcKey, pvValue) ==
    LET uIndex    == SymTable_hash(pcKey, t.uBucketCount)
        psCurrent == FindInChain(h, t.ppsBuckets[uIndex], pcKey)
    IN  IF psCurrent # NULL
        THEN Result([h EXCEPT ![psCurrent].pvValue = pvValue], t,
                    h[psCurrent].pvValue)
        ELSE Result(h, t, NULL)

\* A mutant: only the first binding of the chain is compared with pcKey.
SymTable_contains_headOnly(h, t, pcKey) ==
    LET uIndex == SymTable_hash(pcKey, t.uBucketCount)
        psHead == t.ppsBuckets[uIndex]
    IN  IF psHead # NULL /\ h[psHead].pcKey = pcKey
        THEN Result(h, t, 1)
        ELSE Result(h, t, 0)

\* SymTable_contains answering from the value: 1 when the binding found
\* holds a value other than NULL.
SymTable_contains_byValue(h, t, pcKey) ==
    LET uIndex    == SymTable_hash(pcKey, t.uBucketCount)
        psCurrent == FindInChain(h, t.ppsBuckets[uIndex], pcKey)
    IN  IF psCurrent # NULL /\ h[psCurrent].pvValue # NULL
        THEN Result(h, t, 1)
        ELSE Result(h, t, 0)

SymTable_contains(h, t, pcKey) ==
    LET uIndex == SymTable_hash(pcKey, t.uBucketCount)
    IN  IF FindInChain(h, t.ppsBuckets[uIndex], pcKey) # NULL
        THEN Result(h, t, 1)
        ELSE Result(h, t, 0)

SymTable_get(h, t, pcKey) ==
    LET uIndex    == SymTable_hash(pcKey, t.uBucketCount)
        psCurrent == FindInChain(h, t.ppsBuckets[uIndex], pcKey)
    IN  IF psCurrent # NULL
        THEN Result(h, t, h[psCurrent].pvValue)
        ELSE Result(h, t, NULL)

\* The while loop of SymTable_remove.
\* A mutant: the binding is unlinked and counted off but neither its key
\* copy nor the node is released.
RECURSIVE RemoveLoop_noFree(_, _, _, _, _, _)
RemoveLoop_noFree(h, t, uIndex, psPrev, psCurrent, pcKey) ==
    IF psCurrent = NULL THEN Result(h, t, NULL)
    ELSE IF h[psCurrent].pcKey = pcKey
    THEN LET pvValue == h[psCurrent].pvValue
             psNext  == h[psCurrent].psNextBinding
             t1 == IF psPrev = NULL
                   THEN [t EXCEPT !.ppsBuckets[uIndex] = psNext]
                   ELSE t
             h1 == IF psPrev = NULL
                   THEN h
                   ELSE [h EXCEPT ![psPrev].psNextBinding = psNext]
         IN  Result(h1, [t1 EXCEPT !.uLength = @ - 1], pvValue)
    ELSE RemoveLoop_noFree(h, t, uIndex, psCurrent,
                           h[psCurrent].psNextBinding, pcKey)

\* The loop of SymTable_remove releasing the binding found without linking
\* its predecessor past it.
RECURSIVE RemoveLoop_noUnlink(_, _, _, _, _, _)
RemoveLoop_noUnlink(h, t, uIndex, psPrev, psCurrent, pcKey) ==
    IF psCurrent = NULL THEN Result(h, t, NULL)
    ELSE IF h[psCurrent].pcKey = pcKey
    THEN LET pvValue == h[psCurrent].pvValue
             psNext  == h[psCurrent].psNextBinding
             t1 == IF psPrev = NULL
                   THEN [t EXCEPT !.ppsBuckets[uIndex] = psNext]
                   ELSE t
         IN  Result(Free(h, psCurrent),
                    [t1 EXCEPT !.uLength = @ - 1],
                    pvValue)
    ELSE RemoveLoop_noUnlink(h, t, uIndex, psCurrent,
                             h[psCurrent].psNextBinding, pcKey)

RECURSIVE RemoveLoop(_, _, _, _, _, _)
RemoveLoop(h, t, uIndex, psPrev, psCurrent, pcKey) ==
    IF psCurrent = NULL THEN Result(h, t, NULL)
    ELSE IF h[psCurrent].pcKey = pcKey
    THEN LET pvValue == h[psCurrent].pvValue
             psNext  == h[psCurrent].psNextBinding
             t1 == IF psPrev = NULL
                   THEN [t EXCEPT !.ppsBuckets[uIndex] = psNext]
                   ELSE t
             h1 == IF psPrev = NULL
                   THEN h
                   ELSE [h EXCEPT ![psPrev].psNextBinding = psNext]
         IN  Result(Free(h1, psCurrent),
                    [t1 EXCEPT !.uLength = @ - 1],
                    pvValue)
    ELSE RemoveLoop(h, t, uIndex, psCurrent, h[psCurrent].psNextBinding,
                    pcKey)

\* A mutant: the node is unlinked and released but uLength is not updated.
SymTable_remove_noCount(h, t, pcKey) ==
    LET uIndex == SymTable_hash(pcKey, t.uBucketCount)
        r      == RemoveLoop(h, t, uIndex, NULL, t.ppsBuckets[uIndex], pcKey)
    IN  Result(r.heap, [r.tab EXCEPT !.uLength = t.uLength], r.ret)

\* A mutant: uLength is decremented whether or not the key was found.
SymTable_remove_alwaysCount(h, t, pcKey) ==
    LET uIndex == SymTable_hash(pcKey, t.uBucketCount)
        r      == RemoveLoop(h, t, uIndex, NULL, t.ppsBuckets[uIndex], pcKey)
    IN  Result(r.heap, [r.tab EXCEPT !.uLength = t.uLength - 1], r.ret)

\* A mutant: only the head of the chain is compared with pcKey.
SymTable_remove_headOnly(h, t, pcKey) ==
    LET uIndex == SymTable_hash(pcKey, t.uBucketCount)
        psHead == t.ppsBuckets[uIndex]
    IN  IF psHead # NULL /\ h[psHead].pcKey = pcKey
        THEN RemoveLoop(h, t, uIndex, NULL, psHead, pcKey)
        ELSE Result(h, t, NULL)

\* A mutant: a removal that leaves the table with no more bindings than the
\* previous size class has buckets steps the bucket count back to it.
SymTable_remove_shrink(h, t, pcKey) ==
    LET uIndex == SymTable_hash(pcKey, t.uBucketCount)
        r      == RemoveLoop(h, t, uIndex, NULL, t.ppsBuckets[uIndex], pcKey)
    IN  IF /\ r.tab.uBucketIndex > 0
           /\ r.tab.uLength <= auBucketCounts[r.tab.uBucketIndex]
        THEN Result(r.heap,
                    [r.tab EXCEPT !.uBucketCount = auBucketCounts[t.uBucketIndex],
                                  !.uBucketIndex = t.uBucketIndex - 1],
                    r.ret)
        ELSE r

\* SymTable_remove that looks for the key in the bucket it had among the
\* buckets the table was created with.
SymTable_remove_firstSize(h, t, pcKey) ==
    LET uIndex == SymTable_hash(pcKey, auBucketCounts[1])
    IN  RemoveLoop(h, t, uIndex, NULL, t.ppsBuckets[uIndex], pcKey)

SymTable_remove(h, t, pcKey) ==
    LET uIndex == SymTable_hash(pcKey, t.uBucketCount)
    IN  RemoveLoop(h, t, uIndex, NULL, t.ppsBuckets[uIndex], pcKey)

\* The client's callback, which notes the arguments of each call: the note
\* of one call.
pfApply(pcKey, pvValue, pvExtra) ==
    [pcKey |-> pcKey, pvValue |-> pvValue, pvExtra |-> pvExtra]

\* A mutant: only the first binding of a chain is handed to pfApply.
MapChain_headOnly(h, psCurrent, pvExtra) ==
    IF psCurrent = NULL THEN <<>>
    ELSE <<pfApply(h[psCurrent].pcKey, h[psCurrent].pvValue, pvExtra)>>

\* The inner loop of SymTable_map: the calls of pfApply for the bindings
\* from psCurrent on, in order.
RECURSIVE MapChain(_, _, _)
MapChain(h, psCurrent, pvExtra) ==
    IF psCurrent = NULL THEN <<>>
    ELSE <<pfApply(h[psCurrent].pcKey, h[psCurrent].pvValue, pvExtra)>>
             \o MapChain(h, h[psCurrent].psNextBinding, pvExtra)

\* A mutant: the buckets are visited from the last to the first.
RECURSIVE MapBuckets_descending(_, _, _, _, _)
MapBuckets_descending(h, ppsBuckets, lo, hi, pvExtra) ==
    IF lo > hi THEN <<>>
    ELSE IF lo = hi THEN MapChain(h, ppsBuckets[lo], pvExtra)
    ELSE LET mid == (lo + hi) \div 2
         IN  MapBuckets_descending(h, ppsBuckets, mid + 1, hi, pvExtra)
                 \o MapBuckets_descending(h, ppsBuckets, lo, mid, pvExtra)

\* The outer loop of SymTable_map over buckets lo..hi, in increasing order:
\* the calls for the lower half of the range, then those for the upper.
RECURSIVE MapBuckets(_, _, _, _, _)
MapBuckets(h, ppsBuckets, lo, hi, pvExtra) ==
    IF lo > hi THEN <<>>
    ELSE IF lo = hi THEN MapChain(h, ppsBuckets[lo], pvExtra)
    ELSE LET mid == (lo + hi) \div 2
         IN  MapBuckets(h, ppsBuckets, lo, mid, pvExtra)
                 \o MapBuckets(h, ppsBuckets, mid + 1, hi, pvExtra)

\* SymTable_map: the calls of pfApply it makes.
SymTable_map(h, t, pvExtra) ==
    MapBuckets(h, t.ppsBuckets, 0, t.uBucketCount - 1, pvExtra)

----------------------------------------------------------------------------
(* List backend: symtablelist.c                                            *)

SymTable_new_list == [psFirstBinding |-> NULL, uLength |-> 0]

SymTable_new_list_malloc(m) ==
    IF m = "table" THEN [tab |-> NoTable, calls |-> <<>>]
    ELSE [tab |-> SymTable_new_list, calls |-> <<>>]

SymTable_free_list(h, t) ==
    LET calls == FreeChain(h, t.psFirstBinding)
                     \o <<free("oSymTable", NULL)>>
    IN  [heap |-> Released(h, calls), calls |-> calls]

SymTable_getLength_list(h, t) == Result(h, t, t.uLength)

\* A mutant: the first binding of the list is taken for the one sought,
\* whatever its key.
SymTable_findBinding_list_first(h, t, pcKey) ==
    t.psFirstBinding

SymTable_findBinding_list(h, t, pcKey) ==
    FindInChain(h, t.psFirstBinding, pcKey)

SymTable_put_list(h, t, pcKey, pvValue, m) ==
    IF SymTable_findBinding_list(h, t, pcKey) # NULL THEN Result(h, t, 0)
    ELSE IF m = "node" THEN Outcome(h, t, 0, "node")
    ELSE IF m = "key"
    THEN Outcome(Free(Malloc(h, NewAddr(h)), NewAddr(h)), t, 0, "key")
    ELSE LET psNewBinding == NewAddr(h)
         IN  Result(
               (psNewBinding :> Binding(pcKey, pvValue, t.psFirstBinding)) @@ h,
               [t EXCEPT !.psFirstBinding = psNewBinding, !.uLength = @ + 1],
               1)

SymTable_replace_list(h, t, pcKey, pvValue) ==
    LET psBinding == SymTable_findBinding_list(h, t, pcKey)
    IN  IF psBinding = NULL THEN Result(h, t, NULL)
        ELSE Result([h EXCEPT ![psBinding].pvValue = pvValue], t,
                    h[psBinding].pvValue)

SymTable_contains_list(h, t, pcKey) ==
    Result(h, t, IF SymTable_findBinding_list(h, t, pcKey) # NULL THEN 1 ELSE 0)

SymTable_get_list(h, t, pcKey) ==
    LET psBinding == SymTable_findBinding_list(h, t, pcKey)
    IN  IF psBinding = NULL THEN Result(h, t, NULL)
        ELSE Result(h, t, h[psBinding].pvValue)

\* The while loop of SymTable_remove.
RECURSIVE RemoveLoop_list(_, _, _, _, _)
RemoveLoop_list(h, t, psPrevBinding, psCurrentBinding, pcKey) ==
    IF psCurrentBinding = NULL THEN Result(h, t, NULL)
    ELSE IF h[psCurrentBinding].pcKey = pcKey
    THEN LET pvValue == h[psCurrentBinding].pvValue
             psNext  == h[psCurrentBinding].psNextBinding
             t1 == IF psPrevBinding = NULL
                   THEN [t EXCEPT !.psFirstBinding = psNext]
                   ELSE t
             h1 == IF psPrevBinding = NULL
                   THEN h
                   ELSE [h EXCEPT ![psPrevBinding].psNextBinding = psNext]
         IN  Result(Free(h1, psCurrentBinding),
                    [t1 EXCEPT !.uLength = @ - 1],
                    pvValue)
    ELSE RemoveLoop_list(h, t, psCurrentBinding,
                         h[psCurrentBinding].psNextBinding, pcKey)

SymTable_remove_list(h, t, pcKey) ==
    RemoveLoop_list(h, t, NULL, t.psFirstBinding, pcKey)

SymTable_map_list(h, t, pvExtra) ==
    MapChain(h, t.psFirstBinding, pvExtra)

----------------------------------------------------------------------------
(* The client: one program linked with one of the backends.                *)

LIST      == "symtablelist.c"
HASH      == "symtablehash.c"
EXPANDING == "unnamed/part_001"

Impls == {LIST, HASH, EXPANDING}

IsHash(b) == b \in {HASH, EXPANDING}

New(b) == IF b = LIST THEN SymTable_new_list ELSE SymTable_new


\* The outcomes of the mallocs of SymTable_new: all succeed, the one of
\* the table fails, the one of the bucket array fails.
NewMallocs(b) == IF b = LIST THEN {"ok", "table"} ELSE {"ok", "table", "buckets"}

\* SymTable_new with malloc outcome m.
New_(b, m) ==
    IF b = LIST THEN SymTable_new_list_malloc(m) ELSE SymTable_new_malloc(m)

Free_(b, h, t) ==
    IF b = LIST THEN SymTable_free_list(h, t) ELSE SymTable_free(h, t)

Put_(b, h, t, pcKey, pvValue, m) ==
    CASE b = LIST      -> SymTable_put_list(h, t, pcKey, pvValue, m)
      [] b = HASH      -> SymTable_put(h, t, pcKey, pvValue, m)
      [] b = EXPANDING -> SymTable_put_expanding(h, t, pcKey, pvValue, m)

Replace_(b, h, t, pcKey, pvValue) ==
    IF b = LIST THEN SymTable_replace_list(h, t, pcKey, pvValue)
    ELSE SymTable_replace(h, t, pcKey, pvValue)

Contains_(b, h, t, pcKey) ==
    IF b = LIST THEN SymTable_contains_list(h, t, pcKey)
    ELSE SymTable_contains(h, t, pcKey)

Get_(b, h, t, pcKey) ==
    IF b = LIST THEN SymTable_get_list(h, t, pcKey)
    ELSE SymTable_get(h, t, pcKey)

Remove_(b, h, t, pcKey) ==
    IF b = LIST THEN SymTable_remove_list(h, t, pcKey)
    ELSE SymTable_remove(h, t, pcKey)

GetLength_(b, h, t) ==
    IF b = LIST THEN SymTable_getLength_list(h, t)
    ELSE SymTable_getLength(h, t)

Map_(b, h, t, pvExtra) ==
    IF b = LIST THEN SymTable_map_list(h, t, pvExtra)
    ELSE SymTable_map(h, t, pvExtra)

\* The heap and table after the client has put FillKey(lo) .. FillKey(hi),
\* in that order, starting from s = [heap, tab], every malloc succeeding.
RECURSIVE Fill(_, _, _, _)
Fill(b, s, lo, hi) ==
    IF lo > hi THEN s
    ELSE IF lo = hi
    THEN LET r == Put_(b, s.heap, s.tab, FillKey(lo), FillValue(lo), "ok")
         IN  [heap |-> r.heap, tab |-> r.tab]
    ELSE LET mid  == (lo + hi) \div 2
             done == Fill(b, s, lo, mid)
         IN  IF done.tab.uLength >= 0
             THEN Fill(b, done, mid + 1, hi)
             ELSE done

\* uBucketCount of a hash table; the list has no buckets.
BucketCount(t) == IF "uBucketCount" \in DOMAIN t THEN t.uBucketCount ELSE 0

\* The loads the table starts with: just constructed, or, for the hash
\* backends, whose behaviour depends on the load, holding the Prefill keys.
StartLoads(b) == IF IsHash(b) THEN {0, Prefill} ELSE {0}

Init ==
    /\ impl \in Impls
    /\ \E n \in StartLoads(impl) :
         LET s == Fill(impl, [heap |-> <<>>, tab |-> New(impl)], 1, n)
         IN  /\ heap = s.heap
             /\ oSymTable = s.tab
    /\ last = [op |-> "new", pcKey |-> <<>>, pvValue |-> NULL, ret |-> NULL,
               failed |-> "none", uBucketCountWas |-> BucketCount(oSymTable),
               uLengthWas |-> oSymTable.uLength]
    /\ applied = <<>>
    /\ released = <<>>

\* The client's call op(pcKey, pvValue) with outcome r.  Besides the call
\* and its outcome, last keeps the bucket count and the length the table
\* had when the call was made.
Call(op, pcKey, pvValue, r) ==
    /\ oSymTable # NoTable
    /\ heap' = r.heap
    /\ oSymTable' = r.tab
    /\ last' = [op |-> op, pcKey |-> pcKey, pvValue |-> pvValue, ret |-> r.ret,
                failed |-> r.failed,
                uBucketCountWas |-> BucketCount(oSymTable),
                uLengthWas |-> oSymTable.uLength]
    /\ applied' = <<>>
    /\ released' = <<>>
    /\ UNCHANGED impl

Put ==
    \E pcKey \in ProbeKeys, pvValue \in Values, m \in Mallocs :
        Call("put", pcKey, pvValue,
             Put_(impl, heap, oSymTable, pcKey, pvValue, m))

Replace ==
    \E pcKey \in ProbeKeys, pvValue \in Values :
        Call("replace", pcKey, pvValue,
             Replace_(impl, heap, oSymTable, pcKey, pvValue))

Contains ==
    \E pcKey \in ProbeKeys :
        Call("contains", pcKey, NULL, Contains_(impl, heap, oSymTable, pcKey))

Get ==
    \E pcKey \in ProbeKeys :
        Call("get", pcKey, NULL, Get_(impl, heap, oSymTable, pcKey))

Remove ==
    \E pcKey \in ProbeKeys :
        Call("remove", pcKey, NULL, Remove_(impl, heap, oSymTable, pcKey))

GetLength ==
    Call("getLength", <<>>, NULL, GetLength_(impl, heap, oSymTable))

\* SymTable_map with the client's callback and the context pointer pvExtra.
Map ==
    \E pvExtra \in Values :
        /\ oSymTable # NoTable
        /\ released' = <<>>
        /\ applied' = Map_(impl, heap, oSymTable, pvExtra)
        /\ last' = [op |-> "map", pcKey |-> <<>>, pvValue |-> pvExtra,
                    ret |-> NULL, failed |-> "none",
                    uBucketCountWas |-> BucketCount(oSymTable),
                    uLengthWas |-> oSymTable.uLength]
        /\ UNCHANGED <<impl, heap, oSymTable>>

Next == Put \/ Replace \/ Contains \/ Get \/ Remove \/ GetLength \/ Map

Spec == Init /\ [][Next]_vars

----------------------------------------------------------------------------
(* The client whose table has been filled while no bucket array could be   *)
(* allocated: the build that grows on put, holding as many keys as the     *)
(* second size has buckets, still in the 509 buckets it started with.      *)

\* The keys put before checking starts: as many as the second bucket count.
RetryLoad == auBucketCounts[2]

\* As Fill, every allocation of a bucket array failing.
RECURSIVE FillNoGrowth(_, _, _, _)
FillNoGrowth(b, s, lo, hi) ==
    IF lo > hi THEN s
    ELSE IF lo = hi
    THEN LET r == Put_(b, s.heap, s.tab, FillKey(lo), FillValue(lo),
                       "buckets")
         IN  [heap |-> r.heap, tab |-> r.tab]
    ELSE LET mid  == (lo + hi) \div 2
             done == FillNoGrowth(b, s, lo, mid)
         IN  IF done.tab.uLength >= 0
             THEN FillNoGrowth(b, done, mid + 1, hi)
             ELSE done

InitRetry ==
    /\ impl = EXPANDING
    /\ LET s == FillNoGrowth(impl, [heap |-> <<>>, tab |-> New(impl)],
                             1, RetryLoad)
       IN  /\ heap = s.heap
           /\ oSymTable = s.tab
    /\ last = [op |-> "put", pcKey |-> FillKey(RetryLoad),
               pvValue |-> FillValue(RetryLoad), ret |-> 1,
               failed |-> "buckets",
               uBucketCountWas |-> BucketCount(oSymTable),
               uLengthWas |-> oSymTable.uLength - 1]
    /\ applied = <<>>
    /\ released = <<>>

SpecRetry == InitRetry /\ [][Next]_vars

----------------------------------------------------------------------------
(* SymTable_hash on its own: called with keys and bucket counts the table's *)
(* clients above never reach.                                              *)

\* Longest key hashed.
MaxKeyLen == 5

\* The characters of the keys hashed, as values of type char: 1, 'a', and
\* the byte 0xFF, which is -1 where char is signed and 255 where it is not.
HashChars == {1, 97, -1, 255}

\* The strings over HashChars of length n, and of length up to MaxKeyLen.
RECURSIVE StringsOfLen(_)
StringsOfLen(n) ==
    IF n = 0 THEN {<<>>}
    ELSE {Append(str, c) : str \in StringsOfLen(n - 1), c \in HashChars}

HashKeys == UNION {StringsOfLen(n) : n \in 0..MaxKeyLen}

\* The program is about to call SymTable_hash(pcKey, uBucketCount) with one
\* of the keys and one of the bucket counts of the size sequence, which
\* last notes in pcKey and uBucketCountWas.
InitHash ==
    /\ impl = HASH
    /\ heap = <<>>
    /\ oSymTable = New(impl)
    /\ \E pcKey \in HashKeys, i \in 1..BUCKET_COUNTS_LEN :
          last = [op |-> "call hash", pcKey |-> pcKey, pvValue |-> NULL,
                  ret |-> NULL, failed |-> "none",
                  uBucketCountWas |-> auBucketCounts[i],
                  uLengthWas |-> oSymTable.uLength]
    /\ applied = <<>>
    /\ released = <<>>

\* The call returns.
Hash ==
    /\ last.op = "call hash"
    /\ last' = [last EXCEPT
                   !.op = "hash",
                   !.ret = SymTable_hash(last.pcKey, last.uBucketCountWas)]
    /\ UNCHANGED <<impl, heap, oSymTable, applied, released>>

NextHash == Hash

SpecHash == InitHash /\ [][NextHash]_vars

----------------------------------------------------------------------------
(* A chain walk taken one node at a time: the inner loop of SymTable_map   *)
(* on the bucket of a probe key (on the list, in the list backend).  While *)
(* the walk runs last.ret is psCurrent and applied the calls of pfApply    *)
(* made so far; no other call starts before the walk has ended.            *)

Walking == last.op = "walk"

\* psCurrent = oSymTable->ppsBuckets[u] (psFirstBinding in the list).
WalkStart ==
    \E pcKey \in ProbeKeys :
        /\ ~Walking
        /\ last' = [op |-> "walk", pcKey |-> pcKey, pvValue |-> NULL,
                    ret |-> IF IsHash(impl)
                            THEN oSymTable.ppsBuckets[
                                     SymTable_hash(pcKey,
                                                   oSymTable.uBucketCount)]
                            ELSE oSymTable.psFirstBinding,
                    failed |-> "none",
                    uBucketCountWas |-> BucketCount(oSymTable),
                    uLengthWas |-> oSymTable.uLength]
        /\ applied' = <<>>
        /\ UNCHANGED <<impl, heap, oSymTable, released>>

\* The body of the loop without psCurrent = psCurrent->psNextBinding.
WalkStep_noAdvance ==
    /\ Walking
    /\ last.ret # NULL
    /\ applied' = Append(applied, pfApply(heap[last.ret].pcKey,
                                          heap[last.ret].pvValue,
                                          last.pvValue))
    /\ UNCHANGED <<impl, heap, oSymTable, last, released>>

\* The body of the loop and psCurrent = psCurrent->psNextBinding.
WalkStep ==
    /\ Walking
    /\ last.ret # NULL
    /\ applied' = Append(applied, pfApply(heap[last.ret].pcKey,
                                          heap[last.ret].pvValue,
                                          last.pvValue))
    /\ last' = [last EXCEPT !.ret = heap[last.ret].psNextBinding]
    /\ UNCHANGED <<impl, heap, oSymTable, released>>

\* psCurrent == NULL: the loop is left.
WalkEnd ==
    /\ Walking
    /\ last.ret = NULL
    /\ last' = [last EXCEPT !.op = "walked"]
    /\ UNCHANGED <<impl, heap, oSymTable, applied, released>>

NextWalk ==
    \/ ~Walking /\ Put
    \/ ~Walking /\ Remove
    \/ WalkStart
    \/ WalkStep
    \/ WalkEnd

\* A walk that can take its next step takes it: the program has one thread
\* and nothing suspends it.
SpecWalk ==
    Init /\ [][NextWalk]_vars /\ WF_vars(WalkStep) /\ WF_vars(WalkEnd)

----------------------------------------------------------------------------
(* The client that also ends the life of its table and starts another, and *)
(* that writes to the buffers it passed keys in.                           *)

\* What the client may leave in a key buffer it writes to.
Scribbles == ProbeKeys \cup {<<>>}

\* SymTable_new, called when the client holds no table.  What it returns
\* is the client's oSymTable; last notes which malloc failed, if one did.
NewTable ==
    /\ oSymTable = NoTable
    /\ \E m \in NewMallocs(impl) :
          /\ oSymTable' = New_(impl, m).tab
          /\ released' = New_(impl, m).calls
          /\ last' = [op |-> "new", pcKey |-> <<>>, pvValue |-> NULL,
                      ret |-> NULL,
                      failed |-> IF m = "ok" THEN "none" ELSE m,
                      uBucketCountWas |-> 0, uLengthWas |-> 0]
    /\ applied' = <<>>
    /\ UNCHANGED <<impl, heap>>

\* SymTable_free of the client's table.
FreeTable ==
    /\ oSymTable # NoTable
    /\ LET r == Free_(impl, heap, oSymTable)
       IN  /\ heap' = r.heap
           /\ released' = r.calls
    /\ oSymTable' = NoTable
    /\ last' = [op |-> "free", pcKey |-> <<>>, pvValue |-> NULL,
                ret |-> NULL, failed |-> "none",
                uBucketCountWas |-> BucketCount(oSymTable),
                uLengthWas |-> oSymTable.uLength]
    /\ applied' = <<>>
    /\ UNCHANGED impl

\* The client overwrites, with the string scribble, the buffer it passed
\* as pcKey to the put that inserted the probe key pcKey (or releases the
\* buffer, after which it may hold anything): every node whose pcKey
\* points into that buffer now reads scribble.  last notes the key in
\* pcKey and the new contents in ret.
Reuse ==
    \E pcKey \in ProbeKeys, scribble \in Scribbles :
        /\ oSymTable # NoTable
        /\ \E ps \in DOMAIN heap : heap[ps].pcKey = pcKey
        /\ scribble # pcKey
        /\ heap' = [ps \in DOMAIN heap |->
                       IF heap[ps].pcKeyIs = "pcKey" /\ heap[ps].pcKey = pcKey
                       THEN [heap[ps] EXCEPT !.pcKey = scribble]
                       ELSE heap[ps]]
        /\ last' = [op |-> "reuse", pcKey |-> pcKey, pvValue |-> NULL,
                    ret |-> scribble, failed |-> "none",
                    uBucketCountWas |-> BucketCount(oSymTable),
                    uLengthWas |-> oSymTable.uLength]
        /\ applied' = <<>>
        /\ released' = <<>>
        /\ UNCHANGED <<impl, oSymTable>>

NextLife == Next \/ NewTable \/ FreeTable \/ Reuse

SpecLife == Init /\ [][NextLife]_vars

----------------------------------------------------------------------------
(* What a client can observe of the table, through the backend's own       *)
(* functions, before and after a step.                                     *)

get(pcKey)      == Get_(impl, heap, oSymTable, pcKey).ret
contains(pcKey) == Contains_(impl, heap, oSymTable, pcKey).ret
getLength       == GetLength_(impl, heap, oSymTable).ret

getNext(pcKey)      == Get_(impl, heap', oSymTable', pcKey).ret
containsNext(pcKey) == Contains_(impl, heap', oSymTable', pcKey).ret

\* The keys contains reports as present.
BoundKeys == {pcKey \in ClientKeys : contains(pcKey) = 1}

\* The step is the client's call of op (a call that changes nothing and
\* repeats the previous one is a stuttering step).
Called(op) == last'.op = op

\* The last call was a put whose SymTable_expand installed a larger array.
JustGrew ==
    /\ IsHash(impl)
    /\ last.op = "put"
    /\ last.ret = 1
    /\ oSymTable.uBucketCount > last.uBucketCountWas

----------------------------------------------------------------------------
(* C1: on a hash table that is not at the largest size, a put that inserts  *)
(* a new key and leaves length above the bucket count the table had, its   *)
(* mallocs succeeding, advances the table by exactly one size class:       *)
(* afterwards uBucketCount is the next entry of auBucketCounts and         *)
(* uBucketIndex is one larger.                                             *)
C1_GrowthTrigger ==
    [][(/\ IsHash(impl)
        /\ Called("put")
        /\ last'.ret = 1
        /\ last'.failed = "none"
        /\ oSymTable.uBucketIndex + 1 < BUCKET_COUNTS_LEN
        /\ oSymTable'.uLength > oSymTable.uBucketCount)
       => (/\ oSymTable'.uBucketIndex = oSymTable.uBucketIndex + 1
           /\ oSymTable'.uBucketCount =
                  auBucketCounts[oSymTable.uBucketIndex + 2])]_vars

(* C2: a put that grows the table leaves length at the number of bindings  *)
(* after the insertion, and every key that was bound, and the key just     *)
(* put, is then bound to the value it had; a key that was not bound is    *)
(* still not bound.                                                        *)
C2_GrowthPreservesContents ==
    [][(/\ IsHash(impl)
        /\ Called("put")
        /\ oSymTable'.uBucketCount # oSymTable.uBucketCount)
       => (/\ oSymTable'.uLength = oSymTable.uLength + 1
           /\ Cardinality(DOMAIN heap') = Cardinality(DOMAIN heap) + 1
           /\ \A pcKey \in ClientKeys :
                IF pcKey = last'.pcKey
                THEN /\ contains(pcKey) = 0
                     /\ containsNext(pcKey) = 1
                     /\ getNext(pcKey) = last'.pvValue
                ELSE /\ containsNext(pcKey) = contains(pcKey)
                     /\ getNext(pcKey) = get(pcKey))]_vars

\* Witness of C2: the table has just grown from 509 to 1021 buckets on the
\* put of its 510th key.
C2_Witness ==
    /\ JustGrew
    /\ last.uBucketCountWas = auBucketCounts[1]
    /\ oSymTable.uBucketCount = auBucketCounts[2]
    /\ oSymTable.uLength = auBucketCounts[1] + 1
    /\ Cardinality(BoundKeys) = auBucketCounts[1] + 1

(* C3: SymTable_getLength returns the number of keys currently bound; in   *)
(* particular, after puts of pairwise distinct keys on a new table it      *)
(* returns the number of keys put.                                         *)
C3_LengthIsNumberOfKeys ==
    getLength = Cardinality(BoundKeys)

\* Witness of C3: getLength has just returned Prefill + 2, every key the
\* client ever put being bound.
C3_Witness ==
    /\ last.op = "getLength"
    /\ last.ret = Prefill + 2
    /\ BoundKeys = ClientKeys

----------------------------------------------------------------------------
(* The structure of the table.                                             *)

\* The nodes linked from ps on, in order; at most fuel of them.
RECURSIVE ChainFrom(_, _, _)
ChainFrom(h, ps, fuel) ==
    IF ps = NULL \/ fuel = 0 THEN <<>>
    ELSE <<ps>> \o ChainFrom(h, h[ps].psNextBinding, fuel - 1)

\* The chains of buckets lo..hi, one after the other.
RECURSIVE BucketNodes(_, _, _, _, _)
BucketNodes(h, pps, lo, hi, fuel) ==
    IF lo > hi THEN <<>>
    ELSE IF lo = hi THEN ChainFrom(h, pps[lo], fuel)
    ELSE LET mid == (lo + hi) \div 2
         IN  BucketNodes(h, pps, lo, mid, fuel)
                 \o BucketNodes(h, pps, mid + 1, hi, fuel)

\* Every node linked into the table: the bindings.
TableNodes ==
    LET fuel == Cardinality(DOMAIN heap) + 1
    IN  IF impl = LIST
        THEN ChainFrom(heap, oSymTable.psFirstBinding, fuel)
        ELSE BucketNodes(heap, oSymTable.ppsBuckets, 0,
                         oSymTable.uBucketCount - 1, fuel)

Range(seq) == {seq[i] : i \in 1..Len(seq)}

\* The chain of bucket u of the hash table.
BucketChain(u) ==
    ChainFrom(heap, oSymTable.ppsBuckets[u], Cardinality(DOMAIN heap) + 1)

----------------------------------------------------------------------------
(* C4: in every state of a hash table, every binding is in the chain of the *)
(* bucket whose index is SymTable_hash of its key for the current          *)
(* uBucketCount, and in no other; the array has uBucketCount slots.        *)
C4_Placement ==
    IsHash(impl) =>
        /\ DOMAIN oSymTable.ppsBuckets = 0..(oSymTable.uBucketCount - 1)
        /\ \A u \in DOMAIN oSymTable.ppsBuckets :
              \A ps \in Range(BucketChain(u)) :
                  SymTable_hash(heap[ps].pcKey, oSymTable.uBucketCount) = u
        /\ \A ps \in DOMAIN heap :
              ps \in Range(BucketChain(
                         SymTable_hash(heap[ps].pcKey, oSymTable.uBucketCount)))

\* Witness of C4: the table has just been resized, and bucket 97, which
\* held both "a" and "A7" before, now holds only one of them.
C4_Witness ==
    /\ JustGrew
    /\ BoundKeys = ClientKeys
    /\ SymTable_hash(<<97>>, oSymTable.uBucketCount)
           # SymTable_hash(<<65, 55>>, oSymTable.uBucketCount)

(* C5: in every state, no two bindings of the table, in one bucket or in   *)
(* two, have equal keys.                                                   *)
C5_UniqueKeys ==
    LET nodes == TableNodes
    IN  Cardinality({heap[nodes[i]].pcKey : i \in 1..Len(nodes)}) = Len(nodes)

\* Witness of C5: a put of a key that is bound has just been refused in a
\* table whose only bindings are "a" and "A7", which share a chain.
C5_Witness ==
    /\ last.op = "put"
    /\ last.ret = 0
    /\ last.failed = "none"
    /\ BoundKeys = ProbeKeys

(* C6: in every state, uLength is the sum of the chain lengths over all    *)
(* buckets (for the list backend, the number of nodes of the list).        *)
C6_LengthIsChainSum ==
    oSymTable.uLength = Len(TableNodes)

\* Witness of C6: a binding has just been removed from a table that holds
\* others.
C6_Witness ==
    /\ last.op = "remove"
    /\ last.uLengthWas = oSymTable.uLength + 1
    /\ oSymTable.uLength > 0

(* C7: when SymTable_put(key, v) returns 1, SymTable_get(key) then returns *)
(* v and SymTable_contains(key) returns 1, whether or not the put grew the *)
(* table.                                                                  *)
C7_PutThenGet ==
    (last.op = "put" /\ last.ret = 1) =>
        /\ get(last.pcKey) = last.pvValue
        /\ contains(last.pcKey) = 1

\* Witness of C7: a put that grew the table has just returned 1 for a value
\* other than NULL.
C7_Witness ==
    /\ JustGrew
    /\ last.pvValue # NULL
    /\ get(last.pcKey) = last.pvValue

(* C8: SymTable_put on a key that is bound returns 0 and changes nothing:  *)
(* the table, its length and bucket count, and every binding are as        *)
(* before, so get(key) returns the value the key had and not the one       *)
(* offered.                                                                *)
C8_PutPresentKey ==
    [][(Called("put") /\ contains(last'.pcKey) = 1)
       => (/\ last'.ret = 0
           /\ oSymTable' = oSymTable
           /\ heap' = heap
           /\ getNext(last'.pcKey) = get(last'.pcKey))]_vars

\* Witness of C8: put a->1, A7->v, then put a->0 has returned 0; the length
\* is 2 and get(a) is 1.
C8_Witness ==
    /\ last.op = "put"
    /\ last.pcKey = <<97>>
    /\ last.pvValue = 0
    /\ last.ret = 0
    /\ last.failed = "none"
    /\ getLength = 2
    /\ get(<<97>>) = 1

(* C9: SymTable_remove(key) on a bound key returns the value the key was   *)
(* bound to and decrements uLength by exactly one; afterwards              *)
(* SymTable_get(key) returns NULL and SymTable_contains(key) returns 0.    *)
C9_RemovePresentKey ==
    [][(Called("remove") /\ contains(last'.pcKey) = 1)
       => (/\ last'.ret = get(last'.pcKey)
           /\ oSymTable'.uLength = oSymTable.uLength - 1
           /\ getNext(last'.pcKey) = NULL
           /\ containsNext(last'.pcKey) = 0)]_vars

\* Witness of C9: a remove has just handed back a value other than NULL.
C9_Witness ==
    /\ last.op = "remove"
    /\ last.ret # NULL
    /\ last.uLengthWas = oSymTable.uLength + 1
    /\ contains(last.pcKey) = 0

(* C10: SymTable_remove on a key that is not bound returns NULL and        *)
(* changes nothing: length, bucket count, chains and bindings are as       *)
(* before.                                                                 *)
C10_RemoveAbsentKey ==
    [][(Called("remove") /\ contains(last'.pcKey) = 0)
       => (/\ last'.ret = NULL
           /\ oSymTable' = oSymTable
           /\ heap' = heap)]_vars

\* Witness of C10: a remove has just returned NULL and left the length of a
\* table that holds bindings as it was.
C10_Witness ==
    /\ last.op = "remove"
    /\ last.ret = NULL
    /\ last.uLengthWas = oSymTable.uLength
    /\ oSymTable.uLength > 0

----------------------------------------------------------------------------
(* C11: SymTable_replace(key, v2) on a key bound to v1 returns v1, and      *)
(* SymTable_get(key) then returns v2; the table's length, its set of keys   *)
(* and the key of every binding are as before, and so is the value of      *)
(* every other key.                                                        *)
C11_ReplacePresentKey ==
    [][(Called("replace") /\ contains(last'.pcKey) = 1)
       => (/\ last'.ret = get(last'.pcKey)
           /\ getNext(last'.pcKey) = last'.pvValue
           /\ oSymTable' = oSymTable
           /\ DOMAIN heap' = DOMAIN heap
           /\ \A ps \in DOMAIN heap :
                /\ heap'[ps].pcKey = heap[ps].pcKey
                /\ heap'[ps].psNextBinding = heap[ps].psNextBinding
                /\ heap[ps].pcKey # last'.pcKey
                      => heap'[ps].pvValue = heap[ps].pvValue
           /\ \A pcKey \in ProbeKeys : containsNext(pcKey) = contains(pcKey))]_vars

\* Witness of C11: in a table holding every client key, "a" and "A7" in one
\* chain, a replace has just returned 1 and left its key bound to 0.
C11_Witness ==
    /\ last.op = "replace"
    /\ last.ret = 1
    /\ last.pvValue = 0
    /\ get(last.pcKey) = 0
    /\ last.uLengthWas = oSymTable.uLength
    /\ BoundKeys = ClientKeys

(* C12: SymTable_replace on a key that is not bound returns NULL and makes  *)
(* no change: the key is not inserted, and the length and every binding    *)
(* are as before.                                                          *)
C12_ReplaceAbsentKey ==
    [][(Called("replace") /\ contains(last'.pcKey) = 0)
       => (/\ last'.ret = NULL
           /\ containsNext(last'.pcKey) = 0
           /\ oSymTable' = oSymTable
           /\ heap' = heap)]_vars

\* Witness of C12: a replace offering a value other than NULL has just
\* returned NULL for a key that is not bound, in a table that holds others.
C12_Witness ==
    /\ last.op = "replace"
    /\ last.pvValue # NULL
    /\ last.ret = NULL
    /\ contains(last.pcKey) = 0
    /\ oSymTable.uLength = last.uLengthWas
    /\ oSymTable.uLength > 0

(* C13: SymTable_map calls pfApply exactly once for every (key, value)      *)
(* pair bound in the table and for nothing else, however the bindings are  *)
(* spread over the buckets, and hands every call the caller's pvExtra.     *)
C13_MapVisitsEachBindingOnce ==
    last.op = "map" =>
        /\ Len(applied) = Cardinality(BoundKeys)
        /\ {<<applied[i].pcKey, applied[i].pvValue>> : i \in 1..Len(applied)}
               = {<<pcKey, get(pcKey)>> : pcKey \in BoundKeys}
        /\ \A i \in 1..Len(applied) : applied[i].pvExtra = last.pvValue

\* Witness of C13: a map with a context pointer other than NULL has just
\* visited the bindings of every client key, "a" and "A7" in one chain.
C13_Witness ==
    /\ last.op = "map"
    /\ last.pvValue # NULL
    /\ Len(applied) = Prefill + 2
    /\ BoundKeys = ClientKeys
    /\ SymTable_hash(<<97>>, oSymTable.uBucketCount)
           = SymTable_hash(<<65, 55>>, oSymTable.uBucketCount)

(* C14: a SymTable_put whose node malloc or key-copy malloc fails returns 0 *)
(* and leaves the table as it was: length, bucket count, every chain and   *)
(* every binding are unchanged, the key is not bound afterwards, and no    *)
(* node allocated by the call remains.                                     *)
C14_PutAllocationFailure ==
    [][(Called("put") /\ last'.failed \in {"node", "key"})
       => (/\ last'.ret = 0
           /\ oSymTable' = oSymTable
           /\ heap' = heap
           /\ containsNext(last'.pcKey) = 0)]_vars

\* Witness of C14: the key copy of a put could not be allocated, in a table
\* that holds every other client key.
C14_Witness ==
    /\ last.op = "put"
    /\ last.failed = "key"
    /\ last.ret = 0
    /\ oSymTable.uLength = last.uLengthWas
    /\ BoundKeys = ClientKeys \ {last.pcKey}

(* C15, as claimed: SymTable_put reports a failed allocation with a result  *)
(* distinct from the one it reports for a key that is already bound: a put *)
(* whose node or key-copy malloc fails does not return what the preceding  *)
(* put returned for a bound key.                                           *)
C15_FailureDistinctFromPresent ==
    [][(/\ last.op = "put"
        /\ last.failed = "none"
        /\ last.uLengthWas = oSymTable.uLength
        /\ Called("put")
        /\ last'.failed \in {"node", "key"})
       => last'.ret # last.ret]_vars

(* C15, amended: SymTable_put returns 1 exactly when it inserts the        *)
(* binding and 0 otherwise, for a key already bound and for a failed node  *)
(* or key-copy malloc alike; after a result of 0 the key is bound exactly  *)
(* when it was already bound, and not bound when the allocation failed.    *)
C15_PutResult ==
    [][Called("put")
       => (/\ last'.ret \in {0, 1}
           /\ (last'.ret = 1) <=> (/\ contains(last'.pcKey) = 0
                                   /\ last'.failed \notin {"node", "key"})
           /\ (last'.ret = 1) <=> (oSymTable'.uLength = oSymTable.uLength + 1)
           /\ (last'.ret = 0) =>
                 /\ oSymTable'.uLength = oSymTable.uLength
                 /\ (last'.failed \in {"node", "key"})
                        <=> (containsNext(last'.pcKey) = 0))]_vars

\* Witness of C15: the node of a put could not be allocated, and the put
\* returned 0 with its key not bound, in a table where a put of the other
\* probe key, which is bound, returns 0 as well.
C15_Witness ==
    /\ last.op = "put"
    /\ last.failed = "node"
    /\ last.ret = 0
    /\ contains(last.pcKey) = 0
    /\ \E pcKey \in ProbeKeys \ {last.pcKey} : contains(pcKey) = 1

(* C16: when the new bucket array cannot be allocated during growth, the    *)
(* put that triggered it still returns 1, uBucketCount and uBucketIndex    *)
(* keep their values, the new binding and every earlier one are            *)
(* retrievable with their values, and placement, uniqueness and the length *)
(* invariants hold of the table.                                           *)
C16_GrowthFailureTolerated ==
    /\ [][(Called("put") /\ last'.failed = "buckets")
       => (/\ last'.ret = 1
           /\ oSymTable'.uBucketCount = oSymTable.uBucketCount
           /\ oSymTable'.uBucketIndex = oSymTable.uBucketIndex
           /\ oSymTable'.uLength = oSymTable.uLength + 1
           /\ \A pcKey \in ClientKeys :
                IF pcKey = last'.pcKey
                THEN /\ containsNext(pcKey) = 1
                     /\ getNext(pcKey) = last'.pvValue
                ELSE /\ containsNext(pcKey) = contains(pcKey)
                     /\ getNext(pcKey) = get(pcKey))]_vars
    /\ []((last.op = "put" /\ last.failed = "buckets")
           => (/\ C3_LengthIsNumberOfKeys
               /\ C4_Placement
               /\ C5_UniqueKeys
               /\ C6_LengthIsChainSum))

\* Witness of C16: the put of the 510th key returned 1 although the array of
\* 1021 buckets could not be allocated; the table holds 510 bindings in 509
\* buckets.
C16_Witness ==
    /\ last.op = "put"
    /\ last.failed = "buckets"
    /\ last.ret = 1
    /\ oSymTable.uBucketCount = auBucketCounts[1]
    /\ oSymTable.uBucketIndex = 0
    /\ oSymTable.uLength = auBucketCounts[1] + 1
    /\ BoundKeys = ClientKeys

----------------------------------------------------------------------------
(* C18: in every state of a hash table, uBucketCount is one of the sizes    *)
(* 509, 1021, 2039, 4093, 8191, 16381, 32749, 65521, it is the entry of    *)
(* auBucketCounts at position uBucketIndex, and the bucket array has       *)
(* exactly uBucketCount slots; a step changes the three together or none   *)
(* of them.                                                                *)
C18_SizeSequence ==
    /\ [](IsHash(impl)
            => (/\ oSymTable.uBucketCount
                      \in {509, 1021, 2039, 4093, 8191, 16381, 32749, 65521}
                /\ oSymTable.uBucketIndex \in 0..(BUCKET_COUNTS_LEN - 1)
                /\ oSymTable.uBucketCount
                      = auBucketCounts[oSymTable.uBucketIndex + 1]
                /\ DOMAIN oSymTable.ppsBuckets
                      = 0..(oSymTable.uBucketCount - 1)))
    /\ [][IsHash(impl)
            => (/\ (oSymTable'.uBucketCount # oSymTable.uBucketCount)
                      <=> (oSymTable'.uBucketIndex # oSymTable.uBucketIndex)
                /\ (oSymTable'.uBucketCount # oSymTable.uBucketCount)
                      <=> (DOMAIN oSymTable'.ppsBuckets
                              # DOMAIN oSymTable.ppsBuckets))]_vars

\* Witness of C18: right after a resize the table is at position 1 of the
\* sequence, with 1021 buckets and an array of 1021 slots.
C18_Witness ==
    /\ JustGrew
    /\ oSymTable.uBucketIndex = 1
    /\ oSymTable.uBucketCount = 1021
    /\ DOMAIN oSymTable.ppsBuckets = 0..1020

(* C19: no step decreases uBucketCount: after every operation the bucket   *)
(* count is greater than or equal to the bucket count before it.           *)
C19_BucketCountNeverDecreases ==
    [][BucketCount(oSymTable') >= BucketCount(oSymTable)]_vars

\* Witness of C19: a table that grew to 1021 buckets has had bindings
\* removed until it holds fewer than 509, and still has 1021 buckets.
C19_Witness ==
    /\ IsHash(impl)
    /\ last.op = "remove"
    /\ last.uLengthWas = oSymTable.uLength + 1
    /\ oSymTable.uLength < auBucketCounts[1]
    /\ oSymTable.uBucketCount = auBucketCounts[2]

(* C20: only SymTable_put changes the size of the table: SymTable_remove,  *)
(* also when it empties the table, and SymTable_replace, SymTable_contains,*)
(* SymTable_get and SymTable_map leave uBucketCount and uBucketIndex as    *)
(* they were.                                                              *)
C20_GrowthOnlyInPut ==
    [][(/\ IsHash(impl)
        /\ last'.op \in {"remove", "replace", "contains", "get", "map"})
       => (/\ oSymTable'.uBucketCount = oSymTable.uBucketCount
           /\ oSymTable'.uBucketIndex = oSymTable.uBucketIndex)]_vars

\* Witness of C20: the only binding of a hash table has just been removed,
\* and the empty table has the 509 buckets it had.
C20_Witness ==
    /\ IsHash(impl)
    /\ last.op = "remove"
    /\ last.uLengthWas = 1
    /\ oSymTable.uLength = 0
    /\ last.uBucketCountWas = auBucketCounts[1]
    /\ oSymTable.uBucketCount = auBucketCounts[1]

----------------------------------------------------------------------------
\* The live nodes whose key is pcKey.
NodesOf(pcKey) == {ps \in DOMAIN heap : heap[ps].pcKey = pcKey}

(* C22: SymTable_contains and SymTable_get change nothing of the table     *)
(* (length, bucket count, chains, their order and the values are as        *)
(* before); contains returns 1 exactly when a binding with the key is in   *)
(* the table and 0 otherwise, and get returns that binding's value, or     *)
(* NULL when there is none.                                                *)
C22_ContainsGetPure ==
    [][(last'.op \in {"contains", "get"})
       => (/\ heap' = heap
           /\ oSymTable' = oSymTable
           /\ Called("contains")
                 => last'.ret = IF NodesOf(last'.pcKey) # {} THEN 1 ELSE 0
           /\ Called("get")
                 => IF NodesOf(last'.pcKey) = {}
                    THEN last'.ret = NULL
                    ELSE \E ps \in NodesOf(last'.pcKey) :
                             last'.ret = heap[ps].pvValue)]_vars

\* Witness of C22: contains has just returned 1 for a key whose binding is
\* not the first of its chain, in a table holding every client key.
C22_Witness ==
    /\ IsHash(impl)
    /\ last.op = "contains"
    /\ last.ret = 1
    /\ oSymTable.uLength = Prefill + 2
    /\ LET psHead == oSymTable.ppsBuckets[
                         SymTable_hash(last.pcKey, oSymTable.uBucketCount)]
       IN  heap[psHead].pcKey # last.pcKey

----------------------------------------------------------------------------
(* The contract both backends are held to: what each call returns, and the *)
(* key -> value mapping it leaves, as functions of the mapping before it.  *)

\* The (key, value) pairs held by the nodes of heap h.
MappingOf(h) == {<<h[ps].pcKey, h[ps].pvValue>> : ps \in DOMAIN h}

\* The value pcKey is mapped to in the set of pairs M, or NULL.
ValueIn(M, pcKey) ==
    IF \E p \in M : p[1] = pcKey
    THEN (CHOOSE p \in M : p[1] = pcKey)[2]
    ELSE NULL

ContractRet(op, M, pcKey, pvValue) ==
    CASE op = "put"       -> IF \E p \in M : p[1] = pcKey THEN 0 ELSE 1
      [] op = "contains"  -> IF \E p \in M : p[1] = pcKey THEN 1 ELSE 0
      [] op = "getLength" -> Cardinality(M)
      [] OTHER            -> ValueIn(M, pcKey)

ContractNext(op, M, pcKey, pvValue) ==
    CASE op = "put"     -> IF \E p \in M : p[1] = pcKey THEN M
                           ELSE M \cup {<<pcKey, pvValue>>}
      [] op = "replace" -> IF \E p \in M : p[1] = pcKey
                           THEN {p \in M : p[1] # pcKey}
                                    \cup {<<pcKey, pvValue>>}
                           ELSE M
      [] op = "remove"  -> {p \in M : p[1] # pcKey}
      [] OTHER          -> M

(* C25: the list backend and the hash backends satisfy one contract: with  *)
(* the allocations of a binding succeeding, every put, replace, remove,    *)
(* get, contains and getLength returns what the contract gives for the     *)
(* mapping held before the call and leaves the mapping the contract gives, *)
(* and map visits exactly the pairs of the mapping, once each; so the      *)
(* backends, given the same calls, return the same results at every step   *)
(* and hold the same mapping.                                              *)
C25_BackendsSameContract ==
    [][LET M == MappingOf(heap)
           N == IF heap' = heap THEN M ELSE MappingOf(heap')
       IN  /\ (/\ last'.op \in {"put", "replace", "remove", "get", "contains",
                                "getLength"}
               /\ last'.failed \notin {"node", "key"})
              => (/\ last'.ret = ContractRet(last'.op, M,
                                             last'.pcKey, last'.pvValue)
                  /\ N = ContractNext(last'.op, M,
                                      last'.pcKey, last'.pvValue))
           /\ Called("map")
              => (/\ N = M
                  /\ {<<applied'[i].pcKey, applied'[i].pvValue>> :
                          i \in 1..Len(applied')} = M
                  /\ Len(applied') = Cardinality(M))]_vars

\* Witness of C25: the list backend has just replaced the value of the
\* older of its two bindings and returned the value it had, as the
\* contract has it.
C25_Witness ==
    /\ impl = LIST
    /\ last.op = "replace"
    /\ last.ret # last.pvValue
    /\ oSymTable.uLength = 2
    /\ heap[oSymTable.psFirstBinding].pcKey # last.pcKey
    /\ ValueIn(MappingOf(heap), last.pcKey) = last.pvValue

(* C26: the growth trigger is strict.  A put after which length is at most *)
(* the bucket count the table had (so also one that brings length to       *)
(* exactly that count) leaves the array, the count and the size index as   *)
(* they were; the table grows only in a put after which length exceeds the *)
(* count it had; and SymTable_expand entered with length <= bucket count   *)
(* returns with heap and table unchanged, whatever its malloc would do.    *)
C26_StrictTrigger ==
    /\ [][(IsHash(impl) /\ Called("put"))
          => (/\ oSymTable'.uLength <= oSymTable.uBucketCount
                 => (/\ oSymTable'.uBucketCount = oSymTable.uBucketCount
                     /\ oSymTable'.uBucketIndex = oSymTable.uBucketIndex
                     /\ DOMAIN oSymTable'.ppsBuckets
                            = DOMAIN oSymTable.ppsBuckets)
              /\ oSymTable'.uBucketCount # oSymTable.uBucketCount
                 => (/\ last'.ret = 1
                     /\ oSymTable'.uLength > oSymTable.uBucketCount))]_vars
    /\ []((IsHash(impl) /\ oSymTable.uLength <= oSymTable.uBucketCount)
          => \A ok \in BOOLEAN :
                 SymTable_expand(heap, oSymTable, ok)
                     = [heap |-> heap, tab |-> oSymTable, failed |-> "none"])

\* Witness of C26: in the build whose put calls SymTable_expand, a put has
\* just brought length to exactly the 509 buckets of the table, and the
\* table still has 509 buckets.
C26_Witness ==
    /\ impl = EXPANDING
    /\ last.op = "put"
    /\ last.ret = 1
    /\ oSymTable.uLength = auBucketCounts[1]
    /\ oSymTable.uBucketCount = auBucketCounts[1]
    /\ oSymTable.uBucketIndex = 0

(* C27: growth relinks the binding nodes, it does not recreate them.  In a *)
(* put that grows the table every node that was live is still live, at the *)
(* same address, with the key copy and the value it had; the one node      *)
(* added is the binding the put itself inserted before growing; no node is *)
(* released; the array installed has the new count of buckets; and after   *)
(* the growth every live node is linked into exactly one chain of the new  *)
(* array.                                                                  *)
C27_RehashRelinks ==
    /\ [][(/\ IsHash(impl)
           /\ Called("put")
           /\ oSymTable'.uBucketCount # oSymTable.uBucketCount)
          => (/\ \A ps \in DOMAIN heap :
                    /\ ps \in DOMAIN heap'
                    /\ heap'[ps].pcKey = heap[ps].pcKey
                    /\ heap'[ps].pvValue = heap[ps].pvValue
              /\ \E ps \in DOMAIN heap' :
                    /\ DOMAIN heap' = DOMAIN heap \cup {ps}
                    /\ ps \notin DOMAIN heap
                    /\ heap'[ps].pcKey = last'.pcKey
                    /\ heap'[ps].pvValue = last'.pvValue
              /\ DOMAIN oSymTable'.ppsBuckets
                     = 0..(oSymTable'.uBucketCount - 1))]_vars
    /\ [](JustGrew
          => LET nodes == TableNodes
             IN  /\ Len(nodes) = Cardinality(DOMAIN heap)
                 /\ Range(nodes) = DOMAIN heap)

\* Witness of C27: a put has just grown the table from 509 to 1021 buckets,
\* and the two colliding keys "a" and "A7", which shared bucket 97, now head
\* two different chains.
C27_Witness ==
    /\ JustGrew
    /\ oSymTable.uBucketCount = auBucketCounts[2]
    /\ NodesOf(<<97>>) # {}
    /\ NodesOf(<<65, 55>>) # {}
    /\ SymTable_hash(<<97>>, oSymTable.uBucketCount)
           # SymTable_hash(<<65, 55>>, oSymTable.uBucketCount)
    /\ \A pcKey \in ProbeKeys :
           \E ps \in NodesOf(pcKey) :
               BucketChain(SymTable_hash(pcKey, oSymTable.uBucketCount))[1] = ps

(* C28: a put that inserts, in a step that does not grow the table, links  *)
(* the new binding in at the head: the one new node is the first of the    *)
(* bucket SymTable_hash gives for its key (of the list, in the list        *)
(* backend), its successor is the node that was first before, every node   *)
(* that was live is unchanged, links included, and every other bucket      *)
(* holds the head it held.                                                 *)
C28_HeadInsertion ==
    [][(/\ Called("put")
        /\ last'.ret = 1
        /\ IsHash(impl) => oSymTable'.uBucketCount = oSymTable.uBucketCount)
       => \E ps \in DOMAIN heap' \ DOMAIN heap :
              /\ DOMAIN heap' = DOMAIN heap \cup {ps}
              /\ heap'[ps].pcKey = last'.pcKey
              /\ \A q \in DOMAIN heap : heap'[q] = heap[q]
              /\ IF IsHash(impl)
                 THEN LET uIndex == SymTable_hash(last'.pcKey,
                                                  oSymTable.uBucketCount)
                      IN  /\ oSymTable'.ppsBuckets[uIndex] = ps
                          /\ heap'[ps].psNextBinding
                                 = oSymTable.ppsBuckets[uIndex]
                          /\ oSymTable'.ppsBuckets
                                 = [oSymTable.ppsBuckets EXCEPT ![uIndex] = ps]
                 ELSE /\ oSymTable'.psFirstBinding = ps
                      /\ heap'[ps].psNextBinding = oSymTable.psFirstBinding]_vars

\* Witness of C28: a hash table of 509 buckets has just had a key put into
\* a bucket that already held a probe key; the new binding heads the chain
\* and the older probe key's binding follows it.
C28_Witness ==
    /\ IsHash(impl)
    /\ last.op = "put"
    /\ last.ret = 1
    /\ oSymTable.uBucketCount = auBucketCounts[1]
    /\ LET psHead == oSymTable.ppsBuckets[
                         SymTable_hash(last.pcKey, oSymTable.uBucketCount)]
       IN  /\ heap[psHead].pcKey = last.pcKey
           /\ heap[psHead].psNextBinding # NULL
           /\ heap[heap[psHead].psNextBinding].pcKey \in ProbeKeys
           /\ heap[heap[psHead].psNextBinding].psNextBinding # NULL

(* C29: SymTable_remove of a key that is bound unlinks exactly the binding *)
(* of that key and releases it: that node, and no other, stops being live  *)
(* (its key copy goes with it), and its value is the result.  If it was    *)
(* first in its chain the bucket's head (the list's first binding) becomes *)
(* its successor and no node changes; otherwise the head stays and its     *)
(* predecessor, and no other node, changes, being linked to its successor. *)
(* All other links, so the order of the remaining bindings, and all other  *)
(* buckets are as they were.                                               *)
C29_RemoveUnlinks ==
    [][(Called("remove") /\ NodesOf(last'.pcKey) # {})
       => \E ps \in NodesOf(last'.pcKey) :
              LET psNext == heap[ps].psNextBinding
                  uIndex == SymTable_hash(last'.pcKey, oSymTable.uBucketCount)
                  psHead == IF IsHash(impl)
                            THEN oSymTable.ppsBuckets[uIndex]
                            ELSE oSymTable.psFirstBinding
              IN  /\ NodesOf(last'.pcKey) = {ps}
                  /\ DOMAIN heap' = DOMAIN heap \ {ps}
                  /\ last'.ret = heap[ps].pvValue
                  /\ IF psHead = ps
                     THEN /\ \A q \in DOMAIN heap' : heap'[q] = heap[q]
                          /\ IF IsHash(impl)
                             THEN oSymTable'.ppsBuckets =
                                      [oSymTable.ppsBuckets
                                           EXCEPT ![uIndex] = psNext]
                             ELSE oSymTable'.psFirstBinding = psNext
                     ELSE /\ \E psPrev \in DOMAIN heap' :
                                /\ heap[psPrev].psNextBinding = ps
                                /\ heap' = [q \in DOMAIN heap \ {ps} |->
                                              IF q = psPrev
                                              THEN [heap[q] EXCEPT
                                                      !.psNextBinding = psNext]
                                              ELSE heap[q]]
                          /\ IF IsHash(impl)
                             THEN oSymTable'.ppsBuckets = oSymTable.ppsBuckets
                             ELSE oSymTable'.psFirstBinding
                                      = oSymTable.psFirstBinding]_vars

\* Witness of C29: a hash table of 509 buckets has just had one of the two
\* probe keys removed from the bucket they shared: the other probe key
\* heads the bucket, is followed by a fill key's binding, and no node holds
\* the removed key.
C29_Witness ==
    /\ IsHash(impl)
    /\ last.op = "remove"
    /\ last.pcKey \in ProbeKeys
    /\ NodesOf(last.pcKey) = {}
    /\ last.uLengthWas = Prefill + 2
    /\ oSymTable.uLength = Prefill + 1
    /\ oSymTable.uBucketCount = auBucketCounts[1]
    /\ LET psHead == oSymTable.ppsBuckets[
                         SymTable_hash(last.pcKey, oSymTable.uBucketCount)]
       IN  /\ psHead # NULL
           /\ heap[psHead].pcKey \in ProbeKeys
           /\ heap[psHead].psNextBinding # NULL
           /\ heap[heap[psHead].psNextBinding].pcKey \notin ProbeKeys

\* The position of the call made for pcKey in the calls noted by the
\* latest map of the next state, or 0.
AppliedAt(pcKey) ==
    IF \E i \in 1..Len(applied') : applied'[i].pcKey = pcKey
    THEN CHOOSE i \in 1..Len(applied') : applied'[i].pcKey = pcKey
    ELSE 0

(* C30: SymTable_map of the hash table calls pfApply in bucket-index order *)
(* and, within a bucket, in the order of its chain: the keys of the calls  *)
(* are the keys of bucket 0's chain from its head on, then bucket 1's, and *)
(* so on, so that the bucket indices of the keys visited never decrease;   *)
(* and a map that directly follows an inserting put which did not rehash   *)
(* visits the key just put before any other key of its bucket.             *)
C30_MapOrder ==
    /\ []((IsHash(impl) /\ last.op = "map")
          => LET nodes == TableNodes
             IN  /\ Len(applied) = Len(nodes)
                 /\ \A i \in 1..Len(applied) :
                        applied[i].pcKey = heap[nodes[i]].pcKey
                 /\ \A i \in 1..(Len(applied) - 1) :
                        SymTable_hash(applied[i].pcKey,
                                      oSymTable.uBucketCount)
                          <= SymTable_hash(applied[i + 1].pcKey,
                                           oSymTable.uBucketCount))
    /\ [][(/\ IsHash(impl)
           /\ Called("map")
           /\ last.op = "put"
           /\ last.ret = 1
           /\ last.uBucketCountWas = oSymTable.uBucketCount)
          => LET j == AppliedAt(last.pcKey)
             IN  /\ j > 0
                 /\ j > 1 =>
                      SymTable_hash(applied'[j - 1].pcKey,
                                    oSymTable.uBucketCount)
                        < SymTable_hash(last.pcKey,
                                        oSymTable.uBucketCount)]_vars

\* Witness of C30: a map of a hash table of 509 buckets has visited, after
\* keys of lower buckets, the two probe keys one right after the other and
\* then a fill key of the same bucket, and keys of higher buckets later.
C30_Witness ==
    /\ IsHash(impl)
    /\ last.op = "map"
    /\ oSymTable.uBucketCount = auBucketCounts[1]
    /\ \E i \in 2..(Len(applied) - 3) :
           /\ applied[i].pcKey \in ProbeKeys
           /\ applied[i + 1].pcKey \in ProbeKeys
           /\ applied[i + 2].pcKey \notin ProbeKeys
           /\ SymTable_hash(applied[i + 2].pcKey, oSymTable.uBucketCount)
                  = SymTable_hash(applied[i].pcKey, oSymTable.uBucketCount)
           /\ SymTable_hash(applied[i - 1].pcKey, oSymTable.uBucketCount)
                  < SymTable_hash(applied[i].pcKey, oSymTable.uBucketCount)
           /\ SymTable_hash(applied[Len(applied)].pcKey,
                            oSymTable.uBucketCount)
                  > SymTable_hash(applied[i].pcKey, oSymTable.uBucketCount)

----------------------------------------------------------------------------
(* C21: SymTable_new, when its allocations succeed, produces an empty      *)
(* table: in the hash backend 509 buckets (the first entry of              *)
(* auBucketCounts, size index 0), every one of them NULL, and length 0; in *)
(* the list backend no first binding and length 0; SymTable_getLength      *)
(* returns 0 and SymTable_contains returns 0 for every key.                *)
C21_NewIsEmpty ==
    [][(Called("new") /\ last'.failed = "none")
       => (/\ oSymTable' # NoTable
           /\ oSymTable'.uLength = 0
           /\ GetLength_(impl, heap', oSymTable').ret = 0
           /\ \A pcKey \in ClientKeys : containsNext(pcKey) = 0
           /\ IF IsHash(impl)
              THEN /\ oSymTable'.uBucketCount = 509
                   /\ oSymTable'.uBucketCount = auBucketCounts[1]
                   /\ oSymTable'.uBucketIndex = 0
                   /\ DOMAIN oSymTable'.ppsBuckets = 0..508
                   /\ \A u \in 0..508 : oSymTable'.ppsBuckets[u] = NULL
              ELSE oSymTable'.psFirstBinding = NULL)]_vars

\* Witness of C21: the client's hash table has been freed and SymTable_new
\* has then made it another, of 509 empty buckets and no binding.
C21_Witness ==
    /\ IsHash(impl)
    /\ last.op = "new"
    /\ last.failed = "none"
    /\ last.uBucketCountWas = 0
    /\ oSymTable # NoTable
    /\ oSymTable.uLength = 0
    /\ oSymTable.uBucketCount = auBucketCounts[1]
    /\ heap = <<>>

(* C24: SymTable_free releases, for every binding, its key copy and then   *)
(* its node, each exactly once; after the bindings it releases the bucket  *)
(* array (hash backend) and last the table object; it releases nothing     *)
(* else, so no value; afterwards no node is live and the client holds no   *)
(* table.                                                                  *)
C24_FreeReleasesAll ==
    [][Called("free")
       => LET n == Cardinality(DOMAIN heap)
          IN  /\ Len(released') = 2 * n + (IF IsHash(impl) THEN 2 ELSE 1)
              /\ \A i \in 1..n :
                    /\ released'[2 * i - 1].what = "pcKey"
                    /\ released'[2 * i].what = "psCurrent"
                    /\ released'[2 * i - 1].ps = released'[2 * i].ps
              /\ {released'[2 * i].ps : i \in 1..n} = DOMAIN heap
              /\ IF IsHash(impl)
                 THEN /\ released'[2 * n + 1] = free("ppsBuckets", NULL)
                      /\ released'[2 * n + 2] = free("oSymTable", NULL)
                 ELSE released'[2 * n + 1] = free("oSymTable", NULL)
              /\ DOMAIN heap' = {}
              /\ oSymTable' = NoTable]_vars

\* Witness of C24: a hash table holding every client key, two of them in
\* one chain, has just been freed.
C24_Witness ==
    /\ IsHash(impl)
    /\ last.op = "free"
    /\ last.uLengthWas = Prefill + 2
    /\ last.uBucketCountWas = auBucketCounts[1]
    /\ Len(released) = 2 * (Prefill + 2) + 2
    /\ DOMAIN heap = {}
    /\ oSymTable = NoTable

(* C23: SymTable_put stores its own copy of the key.  The binding an       *)
(* inserting put adds points to the copy the put made, and holds the key   *)
(* passed; and when the caller afterwards writes another string into the   *)
(* buffer it passed the key in, or releases it, nothing of the table       *)
(* changes: the key is still bound, to the same value, and the string      *)
(* written is bound or not as it was before.                               *)
C23_PutCopiesKey ==
    [][/\ (Called("put") /\ last'.ret = 1)
          => \E ps \in DOMAIN heap' \ DOMAIN heap :
                 /\ heap'[ps].pcKey = last'.pcKey
                 /\ heap'[ps].pcKeyIs = "pcKeyCopy"
       /\ Called("reuse")
          => (/\ heap' = heap
              /\ oSymTable' = oSymTable
              /\ contains(last'.pcKey) = 1
              /\ containsNext(last'.pcKey) = 1
              /\ getNext(last'.pcKey) = get(last'.pcKey)
              /\ containsNext(last'.ret) = contains(last'.ret))]_vars

\* Witness of C23: the caller has overwritten the buffer of a key it had
\* put into a hash table with a string that is not a key of the table; the
\* key is bound as before and the string written is not bound.
C23_Witness ==
    /\ IsHash(impl)
    /\ last.op = "reuse"
    /\ last.ret # last.pcKey
    /\ oSymTable # NoTable
    /\ contains(last.pcKey) = 1
    /\ contains(last.ret) = 0
    /\ \E ps \in NodesOf(last.pcKey) : heap[ps].pcKeyIs = "pcKeyCopy"

----------------------------------------------------------------------------
(* The polynomial of C31, computed another way than the code does: the     *)
(* accumulator is held as four 16-bit limbs, least significant first, and  *)
(* a * 65599 is taken as a * 65536 (a shift by one limb) plus a * 63.      *)

PolyZero == <<0, 0, 0, 0>>

\* a * 65599 + c modulo 2^64: limb i of the result, given the carry into it.
RECURSIVE PolyStep(_, _, _)
PolyStep(a, i, carry) ==
    IF i > 4 THEN <<>>
    ELSE LET t == (IF i = 1 THEN 0 ELSE a[i - 1]) + 63 * a[i] + carry
         IN  <<t % 65536>> \o PolyStep(a, i + 1, t \div 65536)

\* The accumulator after the characters of pcKey from position u on.
RECURSIVE PolyAcc(_, _, _)
PolyAcc(pcKey, u, a) ==
    IF u > Len(pcKey) THEN a
    ELSE PolyAcc(pcKey, u + 1, PolyStep(a, 1, pcKey[u]))

\* a modulo m, limb by limb from the most significant, a byte at a time.
RECURSIVE PolyMod(_, _, _, _)
PolyMod(a, i, r, m) ==
    IF i = 0 THEN r
    ELSE PolyMod(a, i - 1,
                 (((r * 256 + (a[i] \div 256)) % m) * 256 + (a[i] % 256)) % m, m)

PolyHash(pcKey, m) == PolyMod(PolyAcc(pcKey, 1, PolyZero), 4, 0, m)

(* C31: SymTable_hash is a function of its arguments and, for every key    *)
(* (the empty string, which hashes to 0, included) and every bucket count  *)
(* of the size sequence, returns an index in 0 .. uBucketCount - 1, equal  *)
(* to the accumulator (0 at the start, accumulator * 65599 + c for each    *)
(* character c in order, modulo 2^64) reduced modulo uBucketCount.         *)
C31_HashIsPolynomial ==
    last.op = "hash" =>
        /\ last.ret \in 0..(last.uBucketCountWas - 1)
        /\ last.ret = PolyHash(last.pcKey, last.uBucketCountWas)
        /\ last.ret = SymTable_hash(last.pcKey, last.uBucketCountWas)
        /\ last.pcKey = <<>> => last.ret = 0

\* Witness of C31: a key of five characters, whose accumulator has passed
\* 2^64 and wrapped, has been hashed for the largest bucket count, to an
\* index of more than 16 bits' worth of the smaller counts.
C31_Witness ==
    /\ last.op = "hash"
    /\ Len(last.pcKey) = MaxKeyLen
    /\ \A u \in 1..Len(last.pcKey) : last.pcKey[u] = 97
    /\ last.uBucketCountWas = auBucketCounts[BUCKET_COUNTS_LEN]
    /\ last.ret = PolyHash(last.pcKey, last.uBucketCountWas)
    /\ last.ret > auBucketCounts[1]

----------------------------------------------------------------------------
(* C32: the allocation of a bucket array is all or nothing: when it        *)
(* succeeds the array has uBucketCount slots and every one is NULL, when   *)
(* it fails no array is returned.  When SymTable_new cannot allocate the   *)
(* bucket array it returns NULL and has released the table object it had   *)
(* allocated, with one call of free; when it cannot allocate the table     *)
(* object it returns NULL and releases nothing; when both allocations      *)
(* succeed it releases nothing and returns a table.                        *)
C32_AllocationAllOrNothing ==
    [][Called("new")
       => (/\ \A i \in {1, 2} :
                /\ SymTable_allocateBuckets(auBucketCounts[i], FALSE)
                       = NoArray
                /\ LET pps == SymTable_allocateBuckets(auBucketCounts[i], TRUE)
                   IN  /\ DOMAIN pps = 0..(auBucketCounts[i] - 1)
                       /\ \A u \in DOMAIN pps : pps[u] = NULL
           /\ last'.failed = "buckets"
                 => (/\ oSymTable' = NoTable
                     /\ released' = <<free("oSymTable", NULL)>>)
           /\ last'.failed = "table"
                 => (/\ oSymTable' = NoTable
                     /\ released' = <<>>)
           /\ last'.failed = "none"
                 => (/\ oSymTable' # NoTable
                     /\ released' = <<>>
                     /\ IsHash(impl) =>
                          \A u \in DOMAIN oSymTable'.ppsBuckets :
                              oSymTable'.ppsBuckets[u] = NULL)
           /\ heap' = heap)]_vars

\* Witness of C32: SymTable_new of a hash build has just returned NULL
\* because the bucket array could not be allocated, and the table object
\* has been released.
C32_Witness ==
    /\ IsHash(impl)
    /\ last.op = "new"
    /\ last.failed = "buckets"
    /\ oSymTable = NoTable
    /\ released = <<free("oSymTable", NULL)>>
    /\ DOMAIN heap = {}

----------------------------------------------------------------------------
(* C33: every operation terminates on every reachable table.  In every     *)
(* state the chains are finite and acyclic: followed from the heads they   *)
(* end after at most as many nodes as are live, and no node is met twice;  *)
(* so a chain walk, taken node by node, has made at most uLength steps at  *)
(* any point, and a walk that has started always ends.                     *)
C33_OperationsTerminate ==
    /\ [](LET nodes == TableNodes
          IN  /\ Len(nodes) <= Cardinality(DOMAIN heap)
              /\ Cardinality(Range(nodes)) = Len(nodes))
    /\ []((last.op \in {"walk", "walked"})
              => Len(applied) <= oSymTable.uLength)
    /\ (last.op = "walk") ~> (last.op = "walked")

\* Witness of C33: the walk of a chain of four bindings of a hash table,
\* the two probe keys and two fill keys, has ended after four steps.
C33_Witness ==
    /\ IsHash(impl)
    /\ last.op = "walked"
    /\ last.ret = NULL
    /\ Len(applied) = 4
    /\ {applied[1].pcKey, applied[2].pcKey} = ProbeKeys

----------------------------------------------------------------------------
(* C34: the load bound.  In a hash table, length exceeds the bucket count  *)
(* at a size that is not the largest only after a growth allocation has    *)
(* failed: a step that starts with length <= bucket count and in which no  *)
(* bucket-array allocation fails ends with length <= bucket count or with  *)
(* the table at the last size index.  (The table starts with length <=     *)
(* bucket count, so with every bucket-array allocation succeeding the      *)
(* bound holds after every operation.)                                     *)
C34_LoadBound ==
    [][(/\ IsHash(impl)
        /\ oSymTable.uLength <= oSymTable.uBucketCount
        /\ last'.failed # "buckets")
       => (\/ oSymTable'.uLength <= oSymTable'.uBucketCount
           \/ oSymTable'.uBucketIndex = BUCKET_COUNTS_LEN - 1)]_vars

----------------------------------------------------------------------------
(* C35: growth is retried after a failure.  In a table left above its      *)
(* bucket count by growth allocations that failed, every put that inserts  *)
(* below the largest size calls SymTable_expand again: either its bucket   *)
(* array allocation fails too, and array, count and size index stay as     *)
(* they were, or the table moves to the next size; and in the state after  *)
(* a put that grew the table every binding is in the chain of the bucket   *)
(* SymTable_hash gives its key for the new count.                          *)
C35_GrowthRetried ==
    /\ [][(/\ IsHash(impl)
           /\ Called("put")
           /\ last'.ret = 1
           /\ oSymTable.uLength > oSymTable.uBucketCount
           /\ oSymTable.uBucketIndex + 1 < BUCKET_COUNTS_LEN)
          => IF last'.failed = "buckets"
             THEN /\ oSymTable'.uBucketCount = oSymTable.uBucketCount
                  /\ oSymTable'.uBucketIndex = oSymTable.uBucketIndex
                  /\ DOMAIN oSymTable'.ppsBuckets
                         = DOMAIN oSymTable.ppsBuckets
                  /\ oSymTable'.uLength = oSymTable.uLength + 1
             ELSE /\ last'.failed = "none"
                  /\ oSymTable'.uBucketIndex = oSymTable.uBucketIndex + 1
                  /\ oSymTable'.uBucketCount
                         = auBucketCounts[oSymTable.uBucketIndex + 2]
                  /\ oSymTable'.uLength = oSymTable.uLength + 1]_vars
    /\ []((JustGrew /\ last.uLengthWas > last.uBucketCountWas)
          => /\ DOMAIN oSymTable.ppsBuckets = 0..(oSymTable.uBucketCount - 1)
             /\ Cardinality(DOMAIN heap) = oSymTable.uLength
             /\ \A ps \in DOMAIN heap :
                    ps \in Range(BucketChain(
                               SymTable_hash(heap[ps].pcKey,
                                             oSymTable.uBucketCount))))

\* Witness of C35: a table that held 1021 bindings in 509 buckets, every
\* growth allocation having failed, has just grown to 1021 buckets in the
\* put of "a", after a put of "A7" whose growth allocation failed as well.
C35_Witness ==
    /\ JustGrew
    /\ last.pcKey = <<97>>
    /\ last.uLengthWas = auBucketCounts[2] + 1
    /\ last.uBucketCountWas = auBucketCounts[1]
    /\ oSymTable.uBucketCount = auBucketCounts[2]
    /\ NodesOf(<<65, 55>>) # {}

(* C36: a single put moves the table by at most one size.  The size index  *)
(* changes only in a put that inserts, and then by exactly one, the count  *)
(* being the entry of auBucketCounts at the index; this is so also when    *)
(* the length exceeds the next size too, and the table is then still above *)
(* its bucket count after growing; no other operation changes the size.    *)
C36_OneSizePerPut ==
    /\ [][IsHash(impl)
          => \/ /\ oSymTable'.uBucketIndex = oSymTable.uBucketIndex
                /\ oSymTable'.uBucketCount = oSymTable.uBucketCount
             \/ /\ Called("put")
                /\ last'.ret = 1
                /\ oSymTable'.uBucketIndex = oSymTable.uBucketIndex + 1
                /\ oSymTable'.uBucketCount
                       = auBucketCounts[oSymTable'.uBucketIndex + 1]]_vars
    /\ [][(/\ IsHash(impl)
           /\ Called("put")
           /\ last'.ret = 1
           /\ last'.failed = "none"
           /\ oSymTable.uBucketIndex + 2 < BUCKET_COUNTS_LEN
           /\ oSymTable.uLength + 1
                  > auBucketCounts[oSymTable.uBucketIndex + 2])
          => /\ oSymTable'.uBucketIndex = oSymTable.uBucketIndex + 1
             /\ oSymTable'.uLength > oSymTable'.uBucketCount]_vars

\* Witness of C36: the table held 1021 bindings in 509 buckets; a put has
\* just grown it to 1021 buckets, the next size, where its 1022 bindings
\* are still more than its buckets.
C36_Witness ==
    /\ JustGrew
    /\ last.uBucketCountWas = auBucketCounts[1]
    /\ oSymTable.uBucketIndex = 1
    /\ oSymTable.uBucketCount = auBucketCounts[2]
    /\ oSymTable.uLength = auBucketCounts[2] + 1

----------------------------------------------------------------------------
\* Keys watched while another key is operated on: the two colliding client
\* keys, the two keys put before them that share their bucket of 509, the
\* first and the last key put before them, and a key that is never bound.
FrameKeys ==
    ProbeKeys \cup {<<115, 101>>, <<107, 114>>, FillKey(1), FillKey(Prefill),
                    <<98>>}

\* The bindings of mapping M whose key is not pcKey.
Without(M, pcKey) == {b \in M : b[1] # pcKey}

(* C37: operations on one key do not disturb the others.  In every put,    *)
(* replace and remove of a key, growth and failures included, contains and *)
(* get of every other watched key return what they returned before, and    *)
(* the bindings of all other keys are the same set of key and value.       *)
C37_OtherKeysUndisturbed ==
    [][(Called("put") \/ Called("replace") \/ Called("remove"))
       => /\ \A pcKey \in FrameKeys \ {last'.pcKey} :
                 /\ containsNext(pcKey) = contains(pcKey)
                 /\ getNext(pcKey) = get(pcKey)
          /\ Without(MappingOf(heap'), last'.pcKey)
                 = Without(MappingOf(heap), last'.pcKey)]_vars

\* Witness of C37: "a" has just been removed from the chain of 509 buckets
\* it shared with "A7", and "A7" is still bound, to the value 1.
C37_Witness ==
    /\ last.op = "remove"
    /\ last.pcKey = <<97>>
    /\ last.uLengthWas = oSymTable.uLength + 1
    /\ IsHash(impl)
    /\ oSymTable.uBucketCount = auBucketCounts[1]
    /\ contains(<<65, 55>>) = 1
    /\ get(<<65, 55>>) = 1

----------------------------------------------------------------------------
\* The first bindings of the table: the heads of its buckets, or the first
\* binding of the list.
Heads ==
    IF IsHash(impl)
    THEN {oSymTable.ppsBuckets[u] : u \in DOMAIN oSymTable.ppsBuckets}
    ELSE {oSymTable.psFirstBinding}

(* C38: ownership.  In every state before SymTable_free no link of the     *)
(* table or of a live node leads to a node that is not live; the live      *)
(* nodes are exactly the nodes reached from the table, each met once in    *)
(* all the chains together; and every live node holds the key copy made    *)
(* for it.  In every step the set of live nodes changes only as the        *)
(* operation says: an inserting put adds one node that was not live, a put *)
(* whose node or key allocation fails adds none, a remove of a bound key   *)
(* releases one node that was live and holds that key, and nothing else    *)
(* allocates or releases a node.                                           *)
C38_Ownership ==
    /\ [](/\ Heads \subseteq DOMAIN heap \cup {NULL}
          /\ \A ps \in DOMAIN heap :
                 /\ heap[ps].psNextBinding \in DOMAIN heap \cup {NULL}
                 /\ heap[ps].pcKeyIs = "pcKeyCopy"
          /\ LET nodes == TableNodes
             IN  /\ Range(nodes) = DOMAIN heap
                 /\ Len(nodes) = Cardinality(DOMAIN heap))
    /\ [][IF Called("put") /\ last'.ret = 1
          THEN \E ps \in DOMAIN heap' \ DOMAIN heap :
                   DOMAIN heap' = DOMAIN heap \cup {ps}
          ELSE IF Called("remove") /\ NodesOf(last'.pcKey) # {}
          THEN \E ps \in NodesOf(last'.pcKey) :
                   /\ DOMAIN heap' = DOMAIN heap \ {ps}
                   /\ \A q \in DOMAIN heap' :
                          heap'[q].psNextBinding # ps
          ELSE DOMAIN heap' = DOMAIN heap]_vars

\* Witness of C38: "A7" has just been removed from the bucket of 509 in
\* which it came second, after "a" and before the keys put earlier; "a"
\* heads the bucket and is linked to the binding that followed "A7".
C38_Witness ==
    /\ IsHash(impl)
    /\ last.op = "remove"
    /\ last.pcKey = <<65, 55>>
    /\ last.uLengthWas = Prefill + 2
    /\ oSymTable.uBucketCount = auBucketCounts[1]
    /\ LET psHead == oSymTable.ppsBuckets[
                         SymTable_hash(<<97>>, oSymTable.uBucketCount)]
       IN  /\ psHead # NULL
           /\ heap[psHead].pcKey = <<97>>
           /\ heap[psHead].psNextBinding \in DOMAIN heap
           /\ Cardinality(DOMAIN heap) = Prefill + 1

----------------------------------------------------------------------------
\* pcKey has a binding, and the value of the binding is NULL.
BoundToNull(pcKey) == \E ps \in NodesOf(pcKey) : heap[ps].pvValue = NULL

(* C39: the result of get, replace and remove for a key that is not bound  *)
(* is NULL, the same result they give for a key bound to NULL.  In every   *)
(* state a key bound to NULL has get = NULL and contains = 1, a key that   *)
(* is not bound has get = NULL and contains = 0, and get # NULL only for a *)
(* key with contains = 1; and a get, replace or remove of a key that is    *)
(* bound to NULL or not bound returns NULL, replace and remove acting on   *)
(* the binding when there is one.                                          *)
C39_NullIsNotFound ==
    /\ [](\A pcKey \in ProbeKeys :
              /\ BoundToNull(pcKey)
                    => (get(pcKey) = NULL /\ contains(pcKey) = 1)
              /\ NodesOf(pcKey) = {}
                    => (get(pcKey) = NULL /\ contains(pcKey) = 0)
              /\ get(pcKey) # NULL => contains(pcKey) = 1)
    /\ [][(/\ Called("get") \/ Called("replace") \/ Called("remove")
           /\ BoundToNull(last'.pcKey) \/ NodesOf(last'.pcKey) = {})
          => /\ last'.ret = NULL
             /\ (Called("remove") /\ BoundToNull(last'.pcKey))
                   => (/\ oSymTable'.uLength = oSymTable.uLength - 1
                       /\ containsNext(last'.pcKey) = 0)
             /\ (Called("replace") /\ BoundToNull(last'.pcKey))
                   => (/\ getNext(last'.pcKey) = last'.pvValue
                       /\ containsNext(last'.pcKey) = 1)]_vars

\* Witness of C39: SymTable_get of "A7" in a hash table has just returned
\* NULL, and "A7" is bound: to NULL, in the chain it shares with "a".
C39_Witness ==
    /\ IsHash(impl)
    /\ last.op = "get"
    /\ last.pcKey = <<65, 55>>
    /\ last.ret = NULL
    /\ BoundToNull(<<65, 55>>)
    /\ contains(<<65, 55>>) = 1
    /\ contains(<<97>>) = 1
    /\ oSymTable.uBucketCount = auBucketCounts[1]

----------------------------------------------------------------------------
\* SymTable_put(pcKey, pvValue) called in the current state with malloc
\* outcome m, and SymTable_remove(pcKey) called right after it.
PutThenRemove(pcKey, pvValue, m) ==
    LET p == Put_(impl, heap, oSymTable, pcKey, pvValue, m)
    IN  [put    |-> p,
         remove |-> IF p.ret = 1 THEN Remove_(impl, p.heap, p.tab, pcKey)
                    ELSE p]

(* C40: put followed by remove of the same key, which was not bound, is a  *)
(* round trip on the contents.  From every state, for every key that is    *)
(* not bound, every value and every outcome of the growth allocation, when *)
(* the put returns 1 the remove that follows returns the value put, and    *)
(* the set of (key, value) bindings, the length, and contains and get of   *)
(* the keys watched are what they were before the put; the bucket count is *)
(* what the put left.  And in every remove that directly follows the put   *)
(* that inserted its key, the result is the value put, the length is the   *)
(* one before the put and the other bindings are untouched.                *)
C40_PutRemoveRoundTrip ==
    /\ [](\A pcKey \in ProbeKeys :
              contains(pcKey) = 0
                  => \A pvValue \in Values, m \in {"ok", "buckets"} :
                         LET r == PutThenRemove(pcKey, pvValue, m)
                         IN  /\ r.put.ret = 1
                             /\ r.remove.ret = pvValue
                             /\ MappingOf(r.remove.heap) = MappingOf(heap)
                             /\ r.remove.tab.uLength = oSymTable.uLength
                             /\ IsHash(impl)
                                    => r.remove.tab.uBucketCount
                                           = r.put.tab.uBucketCount
                             /\ \A k \in FrameKeys :
                                    /\ Contains_(impl, r.remove.heap,
                                                 r.remove.tab, k).ret
                                           = contains(k)
                                    /\ Get_(impl, r.remove.heap,
                                            r.remove.tab, k).ret = get(k))
    /\ [][(/\ last.op = "put"
           /\ last.ret = 1
           /\ Called("remove")
           /\ last'.pcKey = last.pcKey)
          => /\ last'.ret = last.pvValue
             /\ oSymTable'.uLength = last.uLengthWas
             /\ MappingOf(heap') = Without(MappingOf(heap), last.pcKey)
             /\ containsNext(last.pcKey) = 0]_vars

\* Witness of C40: in the build that grows, "A7" was put as the 510th key,
\* after "a"; that put took the table from 509 to 1021 buckets.  "A7" has
\* just been removed again: the remove returned the value 1, the length is
\* 509 again, "a" is bound and "A7" is not, and the table keeps 1021
\* buckets.
C40_Witness ==
    /\ impl = EXPANDING
    /\ last.op = "remove"
    /\ last.pcKey = <<65, 55>>
    /\ last.ret = 1
    /\ last.uLengthWas = Prefill + 2
    /\ oSymTable.uLength = Prefill + 1
    /\ oSymTable.uBucketCount = auBucketCounts[2]
    /\ NodesOf(<<97>>) = {Prefill + 1}
    /\ contains(<<65, 55>>) = 0

====
